---- MODULE Spec2Model ----
(***************************************************************************)
(* Model of the extraction / normalization / reconciliation core of the    *)
(* bank policy comparator (app/services/normalization_service.py and       *)
(* app/services/smart_extraction_service.py).                              *)
(*                                                                         *)
(* Python strings are modelled as sequences of one-character strings, so   *)
(* that substring tests, replacements and the regular expressions of the   *)
(* source are computed character by character.                             *)
(***************************************************************************)
EXTENDS Integers, Sequences, FiniteSets, TLC

\* ------------------------------------------------------------------------
\* Bounds of the model
\* ------------------------------------------------------------------------
\* number of field fragments joined into one raw key
MaxKeyParts == 2
\* number of fragments joined into one composite raw value
MaxValParts == 2
\* number of successive applications of a normalizer to its own output
MaxApps == 2
\* length of the fact list handed to normalize_facts
MaxFacts == 2
MaxRuleFacts == 3
MaxReply == 2
MaxConflictFacts == 2
\* number of calls of extract on one service object
MaxCalls == 3

\* ------------------------------------------------------------------------
\* Characters and strings
\* ------------------------------------------------------------------------
LowerAlpha == <<"a","b","c","d","e","f","g","h","i","j","k","l","m","n","o","p","q","r","s","t","u","v","w","x","y","z">>
UpperAlpha == <<"A","B","C","D","E","F","G","H","I","J","K","L","M","N","O","P","Q","R","S","T","U","V","W","X","Y","Z">>
DigitChars == {"0","1","2","3","4","5","6","7","8","9"}
LowerSet == {LowerAlpha[i] : i \in 1..26}
UpperSet == {UpperAlpha[i] : i \in 1..26}
SpaceSet == {" ", "\t", "\n"}
\* the backtick character, which a TLA+ string literal cannot hold
Backtick == "backtick"
\* the en dash, likewise
EnDash == "endash"

\* str.lower() / str.upper() on one character (ASCII letters; other
\* characters such as the rupee sign are unchanged)
LowerMap == [c \in UpperSet |-> LowerAlpha[CHOOSE i \in 1..26 : UpperAlpha[i] = c]]
UpperMap == [c \in LowerSet |-> UpperAlpha[CHOOSE i \in 1..26 : LowerAlpha[i] = c]]
LowerC(c) == IF c \in UpperSet THEN LowerMap[c] ELSE c
UpperC(c) == IF c \in LowerSet THEN UpperMap[c] ELSE c
Lower(s) == <<>> \o [i \in 1..Len(s) |-> LowerC(s[i])]
Upper(s) == <<>> \o [i \in 1..Len(s) |-> UpperC(s[i])]

\* s[i..] starts with sub (1-based i)
StartsAt(s, sub, i) ==
    /\ i >= 1
    /\ i + Len(sub) - 1 <= Len(s)
    /\ \A j \in 1..Len(sub) : s[i + j - 1] = sub[j]

\* Python: sub in s
Contains(s, sub) == \E i \in 1..(Len(s) + 1) : StartsAt(s, sub, i)

\* Python: s.find(sub) + 1, 0 when absent
FindFirst(s, sub) ==
    IF Contains(s, sub)
    THEN CHOOSE i \in 1..(Len(s) + 1) :
            /\ StartsAt(s, sub, i)
            /\ \A j \in 1..(i - 1) : ~StartsAt(s, sub, j)
    ELSE 0

\* Python: s.replace(old, new) for a non-empty old: every non-overlapping
\* occurrence, scanning left to right
RECURSIVE Replace(_, _, _)
Replace(s, old, new) ==
    LET i == FindFirst(s, old)
    IN  IF i = 0 THEN s
        ELSE SubSeq(s, 1, i - 1) \o new
             \o Replace(SubSeq(s, i + Len(old), Len(s)), old, new)

\* Python: s.strip(c) for a single character c
RECURSIVE LStripC(_, _)
LStripC(s, c) == IF s # <<>> /\ Head(s) = c THEN LStripC(Tail(s), c) ELSE s
RECURSIVE RStripC(_, _)
RStripC(s, c) ==
    IF s # <<>> /\ s[Len(s)] = c THEN RStripC(SubSeq(s, 1, Len(s) - 1), c) ELSE s
StripC(s, c) == RStripC(LStripC(s, c), c)

\* concatenation of a sequence of strings with a separator: sep.join(parts)
RECURSIVE Join(_, _)
Join(parts, sep) ==
    IF parts = <<>> THEN <<>>
    ELSE IF Len(parts) = 1 THEN parts[1]
    ELSE parts[1] \o sep \o Join(Tail(parts), sep)

\* ------------------------------------------------------------------------
\* NormalizationService._normalize_key
\* ------------------------------------------------------------------------
\* TERM_SYNONYMS in dict iteration order.  The literal names 'processing_fee'
\* twice: the later value replaces the earlier one, at the first position.
TERM_SYNONYMS == <<
    [canon |-> <<"c","i","b","i","l">>,
     syns |-> << <<"c","r","e","d","i","t","_","s","c","o","r","e">>, <<"c","i","b","i","l","_","s","c","o","r","e">>, <<"c","r","e","d","i","t","_","r","a","t","i","n","g">>, <<"b","u","r","e","a","u","_","s","c","o","r","e">> >>],
    [canon |-> <<"c","r","e","d","i","t","_","s","c","o","r","e">>,
     syns |-> << <<"c","i","b","i","l">>, <<"c","i","b","i","l","_","s","c","o","r","e">>, <<"c","r","e","d","i","t","_","r","a","t","i","n","g">>, <<"b","u","r","e","a","u","_","s","c","o","r","e">> >>],
    [canon |-> <<"p","r","o","c","e","s","s","i","n","g","_","f","e","e">>,
     syns |-> << <<"l","o","g","i","n","_","f","e","e">>, <<"l","o","g","i","n","_","c","h","a","r","g","e","s">>, <<"l","o","g","i","n","_","f","e","e","_","p","r","o","c","e","s","s","i","n","g","_","f","e","e">>,
                 <<"a","d","m","i","n","_","f","e","e">>, <<"a","d","m","i","n","i","s","t","r","a","t","i","v","e","_","c","h","a","r","g","e","s">>, <<"h","a","n","d","l","i","n","g","_","c","h","a","r","g","e","s">> >>],
    [canon |-> <<"p","r","e","p","a","y","m","e","n","t">>,
     syns |-> << <<"f","o","r","e","c","l","o","s","u","r","e">>, <<"p","r","e","_","c","l","o","s","u","r","e">>, <<"e","a","r","l","y","_","r","e","p","a","y","m","e","n","t">>, <<"p","r","e","m","a","t","u","r","e","_","c","l","o","s","u","r","e">> >>],
    [canon |-> <<"f","o","r","e","c","l","o","s","u","r","e">>,
     syns |-> << <<"p","r","e","p","a","y","m","e","n","t">>, <<"p","r","e","_","c","l","o","s","u","r","e">>, <<"e","a","r","l","y","_","r","e","p","a","y","m","e","n","t">>, <<"p","r","e","m","a","t","u","r","e","_","c","l","o","s","u","r","e">> >>],
    [canon |-> <<"l","t","v">>,
     syns |-> << <<"l","o","a","n","_","t","o","_","v","a","l","u","e">>, <<"l","t","v","_","r","a","t","i","o">>, <<"f","i","n","a","n","c","i","n","g","_","r","a","t","i","o">> >>],
    [canon |-> <<"t","e","n","u","r","e">>,
     syns |-> << <<"t","e","r","m">>, <<"l","o","a","n","_","t","e","r","m">>, <<"r","e","p","a","y","m","e","n","t","_","p","e","r","i","o","d">>, <<"l","o","a","n","_","p","e","r","i","o","d">> >>],
    [canon |-> <<"t","e","r","m">>,
     syns |-> << <<"t","e","n","u","r","e">>, <<"l","o","a","n","_","t","e","r","m">>, <<"r","e","p","a","y","m","e","n","t","_","p","e","r","i","o","d">>, <<"l","o","a","n","_","p","e","r","i","o","d">> >>],
    [canon |-> <<"e","m","i">>,
     syns |-> << <<"e","q","u","a","t","e","d","_","m","o","n","t","h","l","y","_","i","n","s","t","a","l","l","m","e","n","t">>, <<"m","o","n","t","h","l","y","_","i","n","s","t","a","l","l","m","e","n","t">>, <<"i","n","s","t","a","l","l","m","e","n","t">> >>],
    [canon |-> <<"i","n","t","e","r","e","s","t","_","r","a","t","e">>,
     syns |-> << <<"r","o","i">>, <<"r","a","t","e","_","o","f","_","i","n","t","e","r","e","s","t">>, <<"l","e","n","d","i","n","g","_","r","a","t","e">>, <<"h","o","m","e","_","l","o","a","n","_","r","a","t","e">> >>],
    [canon |-> <<"p","r","o","p","e","r","t","y","_","v","a","l","u","e">>,
     syns |-> << <<"p","r","o","p","e","r","t","y","_","c","o","s","t">>, <<"p","r","o","p","e","r","t","y","_","w","o","r","t","h">>, <<"a","s","s","e","t","_","v","a","l","u","e">> >>],
    [canon |-> <<"i","n","c","o","m","e","_","p","r","o","o","f">>,
     syns |-> << <<"s","a","l","a","r","y","_","c","e","r","t","i","f","i","c","a","t","e">>, <<"i","n","c","o","m","e","_","c","e","r","t","i","f","i","c","a","t","e">>, <<"p","a","y","_","s","l","i","p">> >>],
    [canon |-> <<"r","e","s","e","t">>,
     syns |-> << <<"r","e","v","i","s","i","o","n">>, <<"r","a","t","e","_","c","h","a","n","g","e">>, <<"a","d","j","u","s","t","m","e","n","t">> >>],
    [canon |-> <<"g","r","i","e","v","a","n","c","e">>,
     syns |-> << <<"c","o","m","p","l","a","i","n","t">>, <<"d","i","s","p","u","t","e">>, <<"i","s","s","u","e","_","r","e","s","o","l","u","t","i","o","n">> >> ] >>

\* re.sub(r'[^a-z0-9_]', '_', s)
KeyChar(c) == c \in LowerSet \/ c \in DigitChars \/ c = "_"
SubNonKeyChars(s) == <<>> \o [i \in 1..Len(s) |-> IF KeyChar(s[i]) THEN s[i] ELSE "_"]

\* re.sub of a run: every maximal run of characters of set becomes the one
\* character c
Squeeze(s, set, c) ==
    LET marked == <<>> \o [i \in 1..Len(s) |-> <<s[i], i > 1 /\ s[i - 1] \in set>>]
        kept   == SelectSeq(marked, LAMBDA m : ~(m[1] \in set /\ m[2]))
    IN  <<>> \o [i \in 1..Len(kept) |-> IF kept[i][1] \in set THEN c ELSE kept[i][1]]

\* re.sub(r'_+', '_', s)
CollapseUnderscores(s) == Squeeze(s, {"_"}, "_")

\* a segment lower-cased, replaced and collapsed, but not stripped
NormalizeSegmentNoStrip(seg) == CollapseUnderscores(SubNonKeyChars(Lower(seg)))

\* lower-case, replace, collapse and strip one segment (lines 116-117, 119-120, 133-134)
NormalizeSegment(seg) == StripC(CollapseUnderscores(SubNonKeyChars(Lower(seg))), "_")

\* the inner loop of lines 124-128: the first synonym of the list that occurs
\* in the field is replaced (all its occurrences), then the loop breaks
FirstSynonymIn(field, syns) ==
    IF \E i \in 1..Len(syns) : Contains(field, syns[i])
    THEN CHOOSE i \in 1..Len(syns) :
            /\ Contains(field, syns[i])
            /\ \A j \in 1..(i - 1) : ~Contains(field, syns[j])
    ELSE 0

ApplyEntry(field, entry) ==
    LET i == FirstSynonymIn(field, entry.syns)
    IN  IF i = 0 THEN field ELSE Replace(field, entry.syns[i], entry.canon)

\* the outer loop over TERM_SYNONYMS.items(), from entry n onwards
RECURSIVE ApplySynonymsFrom(_, _)
ApplySynonymsFrom(field, n) ==
    IF n > Len(TERM_SYNONYMS) \/ field = <<>> THEN field
    ELSE ApplySynonymsFrom(ApplyEntry(field, TERM_SYNONYMS[n]), n + 1)

ApplySynonyms(field) == ApplySynonymsFrom(field, 1)

\* key.split('.', 1)
SplitSection(key) == SubSeq(key, 1, FindFirst(key, <<".">>) - 1)
SplitField(key) == SubSeq(key, FindFirst(key, <<".">>) + 1, Len(key))

normalize_key(key) ==
    IF Contains(key, <<".">>)
    THEN NormalizeSegment(SplitSection(key)) \o <<".">>
         \o ApplySynonyms(NormalizeSegment(SplitField(key)))
    ELSE ApplySynonyms(NormalizeSegment(key))

\* ------------------------------------------------------------------------
\* Numbers: float(), and the formats {:,.0f}, {:.2f} and repr(float)
\* ------------------------------------------------------------------------
DigitSeq == <<"0","1","2","3","4","5","6","7","8","9">>
DigitVal(c) == (CHOOSE i \in 1..10 : DigitSeq[i] = c) - 1
DigitComma == DigitChars \cup {","}

\* the index after the longest run of characters of set that starts at i
SpanEnd(s, i, set) ==
    CHOOSE j \in i..(Len(s) + 1) :
        /\ \A k \in i..(j - 1) : s[k] \in set
        /\ (j = Len(s) + 1 \/ s[j] \notin set)

At(s, i) == IF i >= 1 /\ i <= Len(s) THEN s[i] ELSE ""

\* s.replace(',', '')
RemoveCommas(s) == SelectSeq(s, LAMBDA c : c # ",")

RECURSIVE DigitsToInt(_)
DigitsToInt(ds) ==
    IF ds = <<>> THEN 0
    ELSE DigitsToInt(SubSeq(ds, 1, Len(ds) - 1)) * 10 + DigitVal(ds[Len(ds)])

RECURSIVE Pow10(_)
Pow10(n) == IF n = 0 THEN 1 ELSE 10 * Pow10(n - 1)

RECURSIVE IntToStr(_)
IntToStr(n) == IF n < 10 THEN <<DigitSeq[n + 1]>> ELSE IntToStr(n \div 10) \o <<DigitSeq[(n % 10) + 1]>>

\* float(t) for a string t of digits with at most one '.': the value is
\* num / den; ok is FALSE where float() raises ValueError (no digit at all)
ParseDecimal(t) ==
    LET dot == FindFirst(t, <<".">>)
        ip  == IF dot = 0 THEN t ELSE SubSeq(t, 1, dot - 1)
        fp  == IF dot = 0 THEN <<>> ELSE SubSeq(t, dot + 1, Len(t))
        wellFormed == /\ \A k \in 1..Len(ip) : ip[k] \in DigitChars
                      /\ \A k \in 1..Len(fp) : fp[k] \in DigitChars
                      /\ Len(ip) + Len(fp) >= 1
    IN  IF wellFormed
        THEN [ok |-> TRUE, num |-> DigitsToInt(ip \o fp), den |-> Pow10(Len(fp))]
        ELSE [ok |-> FALSE, num |-> 0, den |-> 1]

\* the integer nearest to num / den, ties to the even integer (what the
\* formats '.0f' and '.2f' do on a value that is exactly representable)
RoundHalfEven(num, den) ==
    LET q == num \div den
        r == num % den
    IN  IF 2 * r < den THEN q
        ELSE IF 2 * r > den THEN q + 1
        ELSE IF q % 2 = 0 THEN q ELSE q + 1

\* the ',' option of the format: groups of three digits
RECURSIVE GroupThousands(_)
GroupThousands(ds) ==
    IF Len(ds) <= 3 THEN ds
    ELSE GroupThousands(SubSeq(ds, 1, Len(ds) - 3)) \o <<",">>
         \o SubSeq(ds, Len(ds) - 2, Len(ds))

\* f"INR {amount:,.0f}" where amount = (num / den) * mult
FormatINR(num, den, mult) ==
    <<"I","N","R"," ">> \o GroupThousands(IntToStr(RoundHalfEven(num * mult, den)))

\* zero-padded decimal digits of n, width w
RECURSIVE PadDigits(_, _)
PadDigits(n, w) == IF w = 0 THEN <<>> ELSE PadDigits(n \div 10, w - 1) \o <<DigitSeq[(n % 10) + 1]>>

RECURSIVE StripTrailingZeros(_)
StripTrailingZeros(ds) ==
    IF Len(ds) > 1 /\ ds[Len(ds)] = "0" THEN StripTrailingZeros(SubSeq(ds, 1, Len(ds) - 1)) ELSE ds

\* repr(float(t)) for a decimal literal with few digits: no leading zeros,
\* at least one fractional digit, no trailing zeros
ReprFloat(num, den) ==
    LET w == Len(IntToStr(den)) - 1
    IN  IntToStr(num \div den) \o <<".">>
        \o (IF w = 0 THEN <<"0">> ELSE StripTrailingZeros(PadDigits(num % den, w)))

\* f"{num:.2f}"
Format2f(num, den) ==
    LET h == RoundHalfEven(num * 100, den)
    IN  IntToStr(h \div 100) \o <<".">> \o PadDigits(h % 100, 2)

\* the index after a match of [0-9]+(?:\.[0-9]+)? at i, 0 when none
NumberEnd(s, i) ==
    IF At(s, i) \notin DigitChars THEN 0
    ELSE LET j == SpanEnd(s, i, DigitChars)
         IN  IF At(s, j) = "." /\ At(s, j + 1) \in DigitChars
             THEN SpanEnd(s, j + 1, DigitChars)
             ELSE j

\* re.findall(r"\d+(?:\.\d+)?", s)[0]: the first number of s, <<>> when none
FirstNumber(s) ==
    IF \E i \in 1..Len(s) : s[i] \in DigitChars
    THEN LET i == CHOOSE i \in 1..Len(s) :
                    s[i] \in DigitChars /\ \A k \in 1..(i - 1) : s[k] \notin DigitChars
         IN  SubSeq(s, i, NumberEnd(s, i) - 1)
    ELSE <<>>

\* ------------------------------------------------------------------------
\* NormalizationService: currency
\* ------------------------------------------------------------------------
Min(S) == CHOOSE x \in S : \A y \in S : x <= y

\* the index after the currency marker of CURRENCY_PATTERNS[p] (p in 1..4)
\* at position i of the lower-cased value ls, 0 when it is not there
MarkerEnd(ls, p, i) ==
    CASE p = 1 -> IF At(ls, i) = "₹" THEN i + 1 ELSE 0
      [] p = 2 -> IF StartsAt(ls, <<"r","s">>, i)
                  THEN (IF At(ls, i + 2) = "." THEN i + 3 ELSE i + 2)
                  ELSE 0
      [] p = 3 -> IF StartsAt(ls, <<"i","n","r">>, i) THEN i + 3 ELSE 0
      [] p = 4 -> IF At(ls, i) = Backtick THEN i + 1 ELSE 0

\* the index after a match of [0-9,]+(?:\.[0-9]{2})? at j, 0 when none
AmountEnd2(s, j) ==
    IF At(s, j) \notin DigitComma THEN 0
    ELSE LET e == SpanEnd(s, j, DigitComma)
         IN  IF At(s, e) = "." /\ At(s, e + 1) \in DigitChars /\ At(s, e + 2) \in DigitChars
             THEN e + 3
             ELSE e

\* the index after a match of [0-9,]+(?:\.[0-9]*)? at j, 0 when none
AmountEndAny(s, j) ==
    IF At(s, j) \notin DigitComma THEN 0
    ELSE LET e == SpanEnd(s, j, DigitComma)
         IN  IF At(s, e) = "." THEN SpanEnd(s, e + 1, DigitChars) ELSE e

\* the unit word of CURRENCY_PATTERNS[p] (p in 5..7) at position u:
\*   L(?:akh?s?|ac?s?)    Cr(?:ore?s?)    (?:Thousand|K)
UnitAt(ls, p, u) ==
    CASE p = 5 -> StartsAt(ls, <<"l","a","k">>, u) \/ StartsAt(ls, <<"l","a">>, u)
      [] p = 6 -> StartsAt(ls, <<"c","r","o","r">>, u)
      [] p = 7 -> StartsAt(ls, <<"t","h","o","u","s","a","n","d">>, u) \/ StartsAt(ls, <<"k">>, u)

\* group 1 of CURRENCY_PATTERNS[p] matched at start position i, as
\* <<first index, index after the last>>; <<0, 0>> when there is no match at i
CurrencyGroupAt(s, ls, p, i) ==
    IF p <= 4
    THEN LET m == MarkerEnd(ls, p, i)
             j == IF m = 0 THEN 0 ELSE SpanEnd(s, m, SpaceSet)
             e == IF m = 0 THEN 0 ELSE AmountEnd2(s, j)
         IN  IF e = 0 THEN <<0, 0>> ELSE <<j, e>>
    ELSE LET e == AmountEndAny(s, i)
             u == IF e = 0 THEN 0 ELSE SpanEnd(s, e, SpaceSet)
         IN  IF e # 0 /\ UnitAt(ls, p, u) THEN <<i, e>> ELSE <<0, 0>>

\* pattern.search(value) for CURRENCY_PATTERNS[p] (re.IGNORECASE): the
\* leftmost match; amt is match.group(1)
CurrencySearch(s, p) ==
    LET ls == Lower(s)
        starts == {i \in 1..Len(s) : CurrencyGroupAt(s, ls, p, i) # <<0, 0>>}
    IN  IF starts = {} THEN [ok |-> FALSE, amt |-> <<>>]
        ELSE LET g == CurrencyGroupAt(s, ls, p, Min(starts))
             IN  [ok |-> TRUE, amt |-> SubSeq(s, g[1], g[2] - 1)]

NumCurrencyPatterns == 7

contains_currency(value) == \E p \in 1..NumCurrencyPatterns : CurrencySearch(value, p).ok

\* the unit multiplier chosen from the whole upper-cased value (lines 251-282)
CurrencyMultiplier(value) ==
    LET value_upper == Upper(value)
    IN  IF \E t \in { <<"L">>, <<"L","A","K","H">>, <<"L","A","C">> } : Contains(value_upper, t) THEN 100000
        ELSE IF \E t \in { <<"C","R">>, <<"C","R","O","R","E">> } : Contains(value_upper, t) THEN 10000000
        ELSE IF \E t \in { <<"K">>, <<"T","H","O","U","S","A","N","D">> } : Contains(value_upper, t) THEN 1000
        ELSE 1

\* the loop of _normalize_currency from pattern p onwards: a pattern whose
\* amount float() rejects is passed over
RECURSIVE NormalizeCurrencyFrom(_, _)
NormalizeCurrencyFrom(value, p) ==
    IF p > NumCurrencyPatterns THEN value
    ELSE LET m == CurrencySearch(value, p)
             d == ParseDecimal(RemoveCommas(m.amt))
         IN  IF m.ok /\ d.ok
             THEN FormatINR(d.num, d.den, CurrencyMultiplier(value))
             ELSE NormalizeCurrencyFrom(value, p + 1)

normalize_currency(value) == NormalizeCurrencyFrom(value, 1)

\* ------------------------------------------------------------------------
\* NormalizationService: percentage, number, text
\* ------------------------------------------------------------------------
\* the word that follows the number and optional spaces in PERCENTAGE_PATTERNS[p]
PercentSuffix(p) ==
    CASE p = 1 -> <<"%">>
      [] p = 2 -> <<"p","e","r","c","e","n","t">>
      [] p = 3 -> <<"p","c">>

PercentMatchAt(s, ls, p, i) ==
    LET e == NumberEnd(s, i)
    IN  e # 0 /\ StartsAt(ls, PercentSuffix(p), SpanEnd(s, e, SpaceSet))

\* pattern.search(value) for PERCENTAGE_PATTERNS[p]; num is match.group(1)
PercentSearch(s, p) ==
    LET ls == Lower(s)
        starts == {i \in 1..Len(s) : PercentMatchAt(s, ls, p, i)}
    IN  IF starts = {} THEN [ok |-> FALSE, num |-> <<>>]
        ELSE [ok |-> TRUE, num |-> SubSeq(s, Min(starts), NumberEnd(s, Min(starts)) - 1)]

NumPercentPatterns == 3

contains_percentage(value) == \E p \in 1..NumPercentPatterns : PercentSearch(value, p).ok

normalize_percentage(value) ==
    IF contains_percentage(value)
    THEN LET p == Min({q \in 1..NumPercentPatterns : PercentSearch(value, q).ok})
             d == ParseDecimal(PercentSearch(value, p).num)
         IN  ReprFloat(d.num, d.den) \o <<"%">>
    ELSE value

normalize_number(value) ==
    LET n == FirstNumber(value)
        d == ParseDecimal(n)
    IN  IF n = <<>> THEN value
        ELSE IF d.num % d.den = 0 THEN IntToStr(d.num \div d.den)
        ELSE Format2f(d.num, d.den)

\* str.strip()
RECURSIVE LStripWs(_)
LStripWs(s) == IF s # <<>> /\ Head(s) \in SpaceSet THEN LStripWs(Tail(s)) ELSE s
RECURSIVE RStripWs(_)
RStripWs(s) ==
    IF s # <<>> /\ s[Len(s)] \in SpaceSet THEN RStripWs(SubSeq(s, 1, Len(s) - 1)) ELSE s
Strip(s) == RStripWs(LStripWs(s))

\* re.sub(r'\s+', ' ', s)
CollapseSpaces(s) == Squeeze(s, SpaceSet, " ")

\* s.split(sep)
RECURSIVE Split(_, _)
Split(s, sep) ==
    LET i == FindFirst(s, sep)
    IN  IF i = 0 THEN <<s>>
        ELSE <<SubSeq(s, 1, i - 1)>> \o Split(SubSeq(s, i + Len(sep), Len(s)), sep)

\* str.capitalize()
Capitalize(s) == IF s = <<>> THEN s ELSE <<UpperC(s[1])>> \o Lower(Tail(s))

normalize_text(value) ==
    LET normalized == Strip(CollapseSpaces(value))
        sentences == SelectSeq(Split(normalized, <<"."," ">>), LAMBDA x : x # <<>>)
    IN  Join([i \in 1..Len(sentences) |-> Capitalize(sentences[i])], <<"."," ">>)

\* ------------------------------------------------------------------------
\* NormalizationService._normalize_value
\* ------------------------------------------------------------------------
is_currency_field(k) ==
    LET lk == Lower(k)
    IN  \E w \in { <<"f","e","e">>, <<"c","h","a","r","g","e">>, <<"a","m","o","u","n","t">>, <<"l","i","m","i","t">>, <<"i","n","c","o","m","e">>,
                   <<"s","a","l","a","r","y">>, <<"c","o","s","t">> } : Contains(lk, w)

is_percentage_field(k) ==
    LET lk == Lower(k)
    IN  \E w \in { <<"r","a","t","e">>, <<"a","p","r">>, <<"i","n","t","e","r","e","s","t">>, <<"r","o","i">>, <<"l","t","v">>, <<"p","e","r","c","e","n","t">>,
                   <<"p","e","n","a","l","t","y">>, <<"s","p","r","e","a","d">> } : Contains(lk, w)

is_numerical_field(k) ==
    LET lk == Lower(k)
    IN  \E w \in { <<"d","a","y","s">>, <<"m","o","n","t","h","s">>, <<"y","e","a","r","s">>, <<"s","c","o","r","e">>, <<"l","i","m","i","t">>, <<"p","e","r","i","o","d">>,
                   <<"t","e","n","u","r","e">>, <<"t","e","r","m">>, <<"a","g","e">>, <<"e","x","p","e","r","i","e","n","c","e">> } : Contains(lk, w)

\* re.match of the common prefix of the two compound patterns (lines 161, 170)
\*   (?P<pct>[0-9]+(?:\.[0-9]+)?)%\s*or\s*(?:₹|rs\.?|inr)\s*(?P<amt>[0-9,]+)
\* with re.IGNORECASE; next is the index after the amount
CompoundMatch(s) ==
    LET ls == Lower(s)
        e  == NumberEnd(s, 1)
        j  == SpanEnd(s, e + 1, SpaceSet)
        k  == SpanEnd(s, j + 2, SpaceSet)
        ms == {MarkerEnd(ls, p, k) : p \in 1..3} \ {0}
        m  == IF ms = {} THEN 0 ELSE Min(ms)
        a  == SpanEnd(s, m, SpaceSet)
        ae == SpanEnd(s, a, DigitComma)
    IN  IF /\ e # 0
           /\ At(s, e) = "%"
           /\ StartsAt(ls, <<"o","r">>, j)
           /\ m # 0
           /\ ae > a
        THEN [ok |-> TRUE, pct |-> SubSeq(s, 1, e - 1), amt |-> SubSeq(s, a, ae - 1), next |-> ae]
        ELSE [ok |-> FALSE, pct |-> <<>>, amt |-> <<>>, next |-> 0]

\* the tail of the first compound pattern: \s*whichever is\s*(?P<which>higher|lower)
WhicheverAt(s, i) ==
    LET ls == Lower(s)
        w  == SpanEnd(s, i, SpaceSet)
        h  == SpanEnd(s, w + 12, SpaceSet)
    IN  IF ~StartsAt(ls, <<"w","h","i","c","h","e","v","e","r"," ","i","s">>, w) THEN <<>>
        ELSE IF StartsAt(ls, <<"h","i","g","h","e","r">>, h) THEN <<"h","i","g","h","e","r">>
        ELSE IF StartsAt(ls, <<"l","o","w","e","r">>, h) THEN <<"l","o","w","e","r">>
        ELSE <<>>

\* re.match(r"(\d+(?:\.\d+)?)%\s*(?:to|-|–)\s*(\d+(?:\.\d+)?)%", value), line 196
RangeMatch(s) ==
    LET e  == NumberEnd(s, 1)
        j  == SpanEnd(s, e + 1, SpaceSet)
        se == IF StartsAt(s, <<"t","o">>, j) THEN j + 2
              ELSE IF At(s, j) \in {"-", EnDash} THEN j + 1
              ELSE 0
        k  == SpanEnd(s, se, SpaceSet)
        e2 == NumberEnd(s, k)
    IN  IF e # 0 /\ At(s, e) = "%" /\ se # 0 /\ e2 # 0 /\ At(s, e2) = "%"
        THEN [ok |-> TRUE, lo |-> SubSeq(s, 1, e - 1), hi |-> SubSeq(s, k, e2 - 1)]
        ELSE [ok |-> FALSE, lo |-> <<>>, hi |-> <<>>]

\* lines 176-189: the EMI amount branch; the value it leaves for the later
\* branches, and whether the fact is dropped
is_emi_amount(k) ==
    LET lk == Lower(k)
    IN  \/ (Len(lk) >= 20 /\ SubSeq(lk, Len(lk) - 19, Len(lk)) = <<"r","e","p","a","y","m","e","n","t",".","e","m","i","_","a","m","o","u","n","t">>)
        \/ Contains(lk, <<"e","m","i","_","a","m","o","u","n","t">>)

EmiValue(v) ==
    IF \E t \in { <<"r","s">>, <<"i","n","r">>, <<"₹">>, <<Backtick>> } : Contains(Lower(v), t)
    THEN normalize_currency(v)
    ELSE v

EmiTooSmall(v) ==
    LET n == FirstNumber(RemoveCommas(v))
        d == ParseDecimal(n)
    IN  n # <<>> /\ d.num > 0 /\ d.num < 100 * d.den

\* lines 191-209: type detection after the special cases
NormalizeByType(v, k) ==
    IF is_currency_field(k) \/ contains_currency(v) THEN normalize_currency(v)
    ELSE IF RangeMatch(v).ok THEN RangeMatch(v).lo \o <<"%","-">> \o RangeMatch(v).hi \o <<"%">>
    ELSE IF is_percentage_field(k) \/ contains_percentage(v) THEN normalize_percentage(v)
    ELSE IF is_numerical_field(k) THEN normalize_number(v)
    ELSE normalize_text(v)

\* a variant that runs type detection before the compound-fee patterns
normalize_value_type_first(value, k) ==
    IF value = <<>> THEN <<>> ELSE NormalizeByType(Strip(value), k)

normalize_value(value, k) ==
    IF value = <<>> THEN <<>>
    ELSE LET v == Strip(value)
             c == CompoundMatch(v)
             which == IF c.ok THEN WhicheverAt(v, c.next) ELSE <<>>
         IN  IF Contains(Lower(k), <<"e","m","i","_","c","u","r","r","e","n","c","y">>)
             THEN (IF \/ Contains(v, <<"₹">>) \/ Contains(v, <<Backtick>>)
                      \/ Contains(Lower(v), <<"r","s">>) \/ Contains(Lower(v), <<"i","n","r">>)
                   THEN <<"₹">>
                   ELSE v)
             ELSE IF c.ok /\ which # <<>>
             THEN c.pct \o <<"%"," ","o","r"," ","₹">> \o c.amt \o <<" ","(","u","s","e"," ">>
                  \o (IF which = <<"h","i","g","h","e","r">> THEN <<"m","i","n">> ELSE <<"m","a","x">>) \o <<")">>
             ELSE IF c.ok
             THEN c.pct \o <<"%"," ","(","m","i","n"," ","₹">> \o c.amt \o <<")">>
             ELSE IF is_emi_amount(k)
             THEN (IF EmiTooSmall(EmiValue(v)) THEN <<>>
                   ELSE NormalizeByType(EmiValue(v), k))
             ELSE NormalizeByType(v, k)

\* ------------------------------------------------------------------------
\* NormalizationService._looks_bad, normalize_single_fact, normalize_facts
\* ------------------------------------------------------------------------
AllIn(s, set) == \A i \in 1..Len(s) : s[i] \in set

\* '.' of a regular expression matches every character but the newline
NoNewline(s) == \A i \in 1..Len(s) : s[i] # "\n"

EndsWithNotFound(ls) ==
    /\ StartsAt(ls, <<"n","o","t">>, 1)
    /\ LET j == SpanEnd(ls, 4, SpaceSet)
       IN  SubSeq(ls, j, Len(ls)) = <<"f","o","u","n","d">>

\* pat.match(test_val) for BAD_VALUE_PATTERNS[p], compiled with re.IGNORECASE;
\* t is the stripped value
BadPatternMatches(p, t) ==
    LET ls == Lower(t)
    IN  CASE p = 1  -> AllIn(t, SpaceSet)
          [] p = 2  -> t # <<>> /\ AllIn(t, {",", ".", ";"})
          [] p = 3  -> /\ (StartsAt(ls, <<"t","e","m","p","l","a","t","e"," ","f","i","e","l","d">>, 1)
                           \/ StartsAt(ls, <<"v","a","l","u","e"," ","n","o","t"," ","s","p","e","c","i","f","i","e","d">>, 1))
                       /\ NoNewline(t)
          [] p = 4  -> Len(t) >= 3 /\ AllIn(t, {"_"})
          [] p = 5  -> Len(t) >= 2 /\ t[1] = "[" /\ t[Len(t)] = "]" /\ NoNewline(t)
          [] p = 6  -> EndsWithNotFound(ls)
          [] p = 7  -> ls = <<"n",".","a",".">>
          [] p = 8  -> ls = <<"a","s"," ","a","p","p","l","i","c","a","b","l","e">>
          [] p = 9  -> ls = <<"a","s"," ","p","e","r"," ","a","c","t","u","a","l","s">>
          [] p = 10 -> ls = <<"n","o","t"," ","s","p","e","c","i","f","i","e","d">>
          [] p = 11 -> ls = <<"t","o"," ","b","e"," ","f","i","l","l","e","d">>
          [] p = 12 -> Len(t) >= 5 /\ AllIn(t, {"_"})

NumBadValuePatterns == 12

looks_bad(value) == \E p \in 1..NumBadValuePatterns : BadPatternMatches(p, Strip(value))

\* the absent value of an Optional field
None == "None"

\* ExtractedFact(...): the fields the constructor is not given take their
\* default, None
normalize_single_fact(fact) ==
    [key              |-> normalize_key(fact.key),
     value            |-> normalize_value(fact.value, fact.key),
     confidence       |-> fact.confidence,
     source_page      |-> fact.source_page,
     source_text      |-> fact.source_text,
     coordinates      |-> fact.coordinates,
     source_reference |-> None,
     effective_date   |-> None]

\* line 77: a normalized fact is kept unless its value looks bad
not_bad(fact) == ~looks_bad(fact.value)

\* the facts of the input list are replaced by their normalized forms
normalized_in_place(facts) ==
    <<>> \o [i \in 1..Len(facts) |-> normalize_single_fact(facts[i])]

\* lines 72-100: what the caller's list holds after the call; the loop only
\* reads the facts (lines 92-97) and appends new objects to a new list
input_after_normalize(facts) == facts

\* a variant that tests the raw value, before normalization
normalize_facts_filter_first(facts) ==
    LET good == SelectSeq(facts, not_bad)
    IN  <<>> \o [i \in 1..Len(good) |-> normalize_single_fact(good[i])]

normalize_facts(facts) ==
    SelectSeq(<<>> \o [i \in 1..Len(facts) |-> normalize_single_fact(facts[i])], not_bad)

\* ------------------------------------------------------------------------
\* SmartExtractionService._analyze_gaps
\* ------------------------------------------------------------------------
\* HIGH_VALUE_TERMS in dict iteration order
HIGH_VALUE_TERMS == <<
    [section |-> <<"f","e","e","s","_","a","n","d","_","c","h","a","r","g","e","s">>,
     terms |-> << <<"p","r","o","c","e","s","s","i","n","g","_","f","e","e">>, <<"a","d","m","i","n","i","s","t","r","a","t","i","v","e","_","f","e","e">>, <<"l","e","g","a","l","_","c","h","a","r","g","e","s">>,
                  <<"v","a","l","u","a","t","i","o","n","_","c","h","a","r","g","e","s">> >>],
    [section |-> <<"p","r","e","p","a","y","m","e","n","t","_","a","n","d","_","f","o","r","e","c","l","o","s","u","r","e">>,
     terms |-> << <<"p","r","e","p","a","y","m","e","n","t","_","p","e","n","a","l","t","y">>, <<"f","o","r","e","c","l","o","s","u","r","e","_","c","h","a","r","g","e","s">>, <<"l","o","c","k","_","i","n","_","p","e","r","i","o","d">> >>],
    [section |-> <<"i","n","t","e","r","e","s","t","_","r","a","t","e","s">>,
     terms |-> << <<"r","e","s","e","t","_","f","r","e","q","u","e","n","c","y">>, <<"b","e","n","c","h","m","a","r","k","_","r","a","t","e">>, <<"r","a","t","e","_","c","h","a","n","g","e","_","c","o","m","m","u","n","i","c","a","t","i","o","n">>,
                  <<"n","o","t","i","f","i","c","a","t","i","o","n","_","m","e","t","h","o","d">> >>],
    [section |-> <<"d","o","c","u","m","e","n","t","s">>,
     terms |-> << <<"r","e","q","u","i","r","e","d","_","d","o","c","u","m","e","n","t","s">>, <<"k","y","c","_","d","o","c","u","m","e","n","t","s">> >>],
    [section |-> <<"g","r","i","e","v","a","n","c","e">>,
     terms |-> << <<"p","r","o","c","e","s","s">>, <<"c","o","m","p","l","a","i","n","t","_","p","r","o","c","e","d","u","r","e">>, <<"c","u","s","t","o","m","e","r","_","s","e","r","v","i","c","e">> >>] >>

\* lines 122-129: the set of keys of the rule facts, each split at its first
\* '.' and put together again
found_terms(facts) ==
    { IF Contains(facts[i].key, <<".">>)
      THEN SplitSection(facts[i].key) \o <<".">> \o SplitField(facts[i].key)
      ELSE facts[i].key : i \in 1..Len(facts) }

\* lines 143-147: the terms of one checklist entry that were not found
MissingTerms(entry, found) ==
    SelectSeq(entry.terms, LAMBDA term : (entry.section \o <<".">> \o term) \notin found)

\* a variant that records every checklist section, also one without a gap
RECURSIVE GapsFromKeepEmpty(_, _)
GapsFromKeepEmpty(n, found) ==
    IF n > Len(HIGH_VALUE_TERMS) THEN <<>>
    ELSE << [section |-> HIGH_VALUE_TERMS[n].section,
             missing |-> MissingTerms(HIGH_VALUE_TERMS[n], found)] >>
         \o GapsFromKeepEmpty(n + 1, found)

\* lines 141-149: the gaps dict, as the sequence of its items in insertion
\* order; a section without a missing term gets no item
RECURSIVE GapsFrom(_, _)
GapsFrom(n, found) ==
    IF n > Len(HIGH_VALUE_TERMS) THEN <<>>
    ELSE LET missing == MissingTerms(HIGH_VALUE_TERMS[n], found)
         IN  (IF missing # <<>>
              THEN << [section |-> HIGH_VALUE_TERMS[n].section, missing |-> missing] >>
              ELSE <<>>)
             \o GapsFrom(n + 1, found)

analyze_gaps_keep_empty(facts) == GapsFromKeepEmpty(1, found_terms(facts))

analyze_gaps(facts) == GapsFrom(1, found_terms(facts))

\* section in gaps and term in gaps[section]
Requested(requested, section, term) ==
    \E i \in 1..Len(requested) :
        /\ requested[i].section = section
        /\ \E j \in 1..Len(requested[i].missing) : requested[i].missing[j] = term

\* ------------------------------------------------------------------------
\* LLMExtractionService.extract_facts_with_prompt (the collaborator)
\* ------------------------------------------------------------------------
\* s.replace(' ', '_').replace('&', '_and') on the lower-cased section name
CleanSection(section) ==
    Replace(Replace(Lower(section), <<" ">>, <<"_">>), <<"&">>, <<"_","a","n","d">>)

LlmFact(k, v, conf, src) ==
    [key |-> k, value |-> v, confidence |-> conf, source_page |-> None,
     source_text |-> src, coordinates |-> None,
     source_reference |-> <<>>, effective_date |-> None]

\* the facts the except branch of _parse_comprehensive_response adds
StatusFact ==
    [key |-> <<"d","o","c","u","m","e","n","t","_","v","a","l","i","d","a","t","i","o","n",".","s","t","a","t","u","s">>, value |-> <<"e","m","p","t","y","_","o","r","_","c","o","r","r","u","p","t","e","d">>,
     confidence |-> 80, source_page |-> None,
     source_text |-> <<"D","o","c","u","m","e","n","t"," ","a","p","p","e","a","r","s"," ","t","o"," ","b","e"," ","e","m","p","t","y"," ","o","r"," ","c","o","r","r","u","p","t","e","d">>,
     coordinates |-> None, source_reference |-> None, effective_date |-> None]

RawResponseFact ==
    [key |-> <<"c","o","m","p","r","e","h","e","n","s","i","v","e","_","e","x","t","r","a","c","t","i","o","n",".","r","a","w","_","r","e","s","p","o","n","s","e">>, value |-> <<"r","a","w"," ","r","e","s","p","o","n","s","e">>,
     confidence |-> 50, source_page |-> None, source_text |-> <<"r","a","w"," ","r","e","s","p","o","n","s","e">>,
     coordinates |-> None, source_reference |-> None, effective_date |-> None]

NonLoanFact ==
    [key |-> <<"d","o","c","u","m","e","n","t","_","v","a","l","i","d","a","t","i","o","n",".","d","o","c","u","m","e","n","t","_","t","y","p","e">>, value |-> <<"n","o","n","_","l","o","a","n","_","d","o","c","u","m","e","n","t">>,
     confidence |-> 90, source_page |-> None,
     source_text |-> <<"D","o","c","u","m","e","n","t"," ","d","o","e","s"," ","n","o","t"," ","a","p","p","e","a","r"," ","t","o"," ","b","e"," ","a"," ","h","o","m","e"," ","l","o","a","n"," ","d","o","c","u","m","e","n","t">>,
     coordinates |-> None, source_reference |-> None, effective_date |-> None]

\* the loop over the items of the JSON array: an item that is no dict is
\* skipped; a confidence outside [0, 1] makes the ExtractedFact constructor
\* raise ValueError, and the except branch adds the raw-response fact to the
\* facts built so far
RECURSIVE ParseItems(_)
ParseItems(items) ==
    IF items = <<>> THEN <<>>
    ELSE LET item == Head(items)
         IN  IF item.dict = FALSE THEN ParseItems(Tail(items))
             ELSE IF item.confidence < 0 \/ item.confidence > 100 THEN <<RawResponseFact>>
             ELSE << LlmFact(CleanSection(item.section) \o <<".">> \o item.field,
                             item.value, item.confidence, item.source_text) >>
                  \o ParseItems(Tail(items))

\* what extract_facts_with_prompt returns for each kind of answer of the model
extract_facts_with_prompt(answer) ==
    CASE answer.kind = "api_error"      -> <<>>
      [] answer.kind = "empty"          -> <<>>
      [] answer.kind = "non_loan"       -> <<NonLoanFact>>
      [] answer.kind = "no_array"       -> <<>>
      [] answer.kind = "bad_json_short" -> <<StatusFact>>
      [] answer.kind = "bad_json_long"  -> <<RawResponseFact>>
      [] answer.kind = "items"          -> ParseItems(answer.items)

\* ------------------------------------------------------------------------
\* SmartExtractionService._extract_missing_with_llm
\* ------------------------------------------------------------------------
\* lines 170-174: section and term of a returned key, and the test
KeySection(k) == IF Contains(k, <<".">>) THEN Split(k, <<".">>)[1] ELSE k
KeyTerm(k) == IF Contains(k, <<".">>) THEN Split(k, <<".">>)[2] ELSE k

\* a variant that keeps whatever the collaborator returned
FilterRequested(returned, requested) ==
    SelectSeq(returned,
              LAMBDA fact : Requested(requested, KeySection(fact.key), KeyTerm(fact.key)))

\* build_focused_prompt returns None when no section has a missing term
HasFocusedPrompt(requested) == \E i \in 1..Len(requested) : requested[i].missing # <<>>

\* lines 163-182: the call of the collaborator inside try/except; outcome is
\* either an exception raised by the collaborator or its answer
extract_missing_no_try(outcome, requested) ==
    IF outcome.kind = "raise"
    THEN [raised |-> TRUE, facts |-> <<>>]
    ELSE [raised |-> FALSE,
          facts |-> FilterRequested(extract_facts_with_prompt(outcome), requested)]

extract_missing_with_llm(outcome, requested) ==
    IF outcome.kind = "raise"
    THEN [raised |-> FALSE, facts |-> <<>>]
    ELSE [raised |-> FALSE,
          facts |-> FilterRequested(extract_facts_with_prompt(outcome), requested)]

\* the lists joined the other way round
CombineExternalFirst(rule, llm) == llm \o rule

\* line 109
Combine(rule, llm) == rule \o llm

\* ------------------------------------------------------------------------
\* NormalizationService: conflict detection
\* ------------------------------------------------------------------------
EmDash == "emdash"

\* re.sub(r'[^\d.-]', '', value)
NumericChars(value) == SelectSeq(value, LAMBDA c : c \in DigitChars \cup {".", "-"})

\* float(t) for a string t over digits, '.' and '-'
ParseSigned(t) ==
    LET neg == t # <<>> /\ t[1] = "-"
        p   == ParseDecimal(IF neg THEN Tail(t) ELSE t)
    IN  [ok |-> p.ok, num |-> IF neg THEN 0 - p.num ELSE p.num, den |-> p.den]

\* the numerator of the number a over the denominator d, a multiple of a.den
Scaled(a, d) == a.num * (d \div a.den)
MaxOf(x, y) == IF x >= y THEN x ELSE y
MinOf(x, y) == IF x <= y THEN x ELSE y
Abs(x) == IF x >= 0 THEN x ELSE 0 - x

\* re.sub(r'[^\w]', '', value.lower())
WordChars(value) ==
    SelectSeq(Lower(value), LAMBDA c : c \in LowerSet \/ c \in DigitChars \/ c = "_")

\* the threshold of line 540 read as 25%
DiffersByMoreThanQuarter(x, y) == Abs(x - y) * 4 > MaxOf(x, y)

\* lines 538-540: abs(num1 - num2) / max(num1, num2) > 0.1, for two numbers
\* over one denominator
DiffersByMoreThanTenth(x, y) == Abs(x - y) * 10 > MaxOf(x, y)

\* the multiples x of 0.1 up to 12, in hundredths, for which the double
\* computation of abs(x - y) / x with y = 0.9 x gives more than the double
\* 0.1 (no whole number x up to 100000 does)
TenthRoundsAbove ==
    { 10, 20, 40, 80, 110, 130, 160, 210, 220, 260, 290, 310, 320, 350, 370, 390, 420,
      440, 450, 490, 520, 530, 570, 580, 590, 620, 640, 650, 690, 700, 740, 770, 780,
      830, 840, 880, 890, 900, 910, 930, 980, 990, 1030, 1040, 1050, 1060, 1130, 1140,
      1150, 1160, 1180 }

\* lines 538-540 in double arithmetic, for two numbers over the denominator
\* d that differ by exactly one tenth of the larger
RoundsAboveTenth(x, y, d) ==
    /\ Abs(x - y) * 10 = MaxOf(x, y)
    /\ (MaxOf(x, y) * 100) % d = 0
    /\ (MaxOf(x, y) * 100) \div d \in TenthRoundsAbove

\* lines 519-548
values_conflict(value1, value2) ==
    IF value1 = value2 THEN FALSE
    ELSE LET a == ParseSigned(NumericChars(value1))
             b == ParseSigned(NumericChars(value2))
             d == MaxOf(a.den, b.den)
         IN  IF a.ok /\ b.ok
             THEN /\ MaxOf(Scaled(a, d), Scaled(b, d)) > 0
                  /\ \/ DiffersByMoreThanTenth(Scaled(a, d), Scaled(b, d))
                     \/ RoundsAboveTenth(Scaled(a, d), Scaled(b, d), d)
             ELSE /\ WordChars(value1) # WordChars(value2)
                  /\ WordChars(value1) # <<>>
                  /\ WordChars(value2) # <<>>

\* the confidences c, in hundredths, for which the double subtraction of
\* c/100 and (c+20)/100 gives a magnitude just below the double 0.2
GapRoundsBelowFifth ==
    { 1, 4, 9, 10, 15, 16, 17, 21, 22, 23, 27, 28, 37, 38, 39, 40, 49, 50, 51, 52, 53, 54,
      55, 56, 62, 63, 64, 65, 66, 67, 68, 74, 75, 76, 77, 78, 79, 80 }

\* line 396: abs(fact1.confidence - fact2.confidence) < 0.2 in double
\* arithmetic, for confidences given in hundredths
Severity(c1, c2) ==
    IF \/ Abs(c1 - c2) < 20
       \/ (Abs(c1 - c2) = 20 /\ MinOf(c1, c2) \in GapRoundsBelowFifth)
    THEN "high" ELSE "medium"

\* the pairs <<i, j>> with i < j <= n, in the order of the two loops
RECURSIVE PairsFrom(_, _, _)
PairsFrom(i, j, n) ==
    IF i >= n THEN <<>>
    ELSE IF j > n THEN PairsFrom(i + 1, i + 2, n)
    ELSE << <<i, j>> >> \o PairsFrom(i, j + 1, n)

Pairs(n) == PairsFrom(1, 2, n)

RECURSIVE Flatten(_)
Flatten(seqs) == IF seqs = <<>> THEN <<>> ELSE Head(seqs) \o Flatten(Tail(seqs))

\* lines 382-399
detect_group_conflicts(k, group) ==
    Flatten([n \in 1..Len(Pairs(Len(group))) |->
        LET fact1 == group[Pairs(Len(group))[n][1]]
            fact2 == group[Pairs(Len(group))[n][2]]
        IN  IF values_conflict(fact1.value, fact2.value)
            THEN << [type |-> "value_contradiction",
                     key |-> k,
                     conflicting_values |-> <<fact1.value, fact2.value>>,
                     sources |-> <<fact1.source_text, fact2.source_text>>,
                     confidence_scores |-> <<fact1.confidence, fact2.confidence>>,
                     severity |-> Severity(fact1.confidence, fact2.confidence)] >>
            ELSE <<>>])

\* the distinct elements of a sequence, in the order of their first occurrence
RECURSIVE Distinct(_)
Distinct(s) ==
    IF s = <<>> THEN <<>>
    ELSE LET r == Distinct(SubSeq(s, 1, Len(s) - 1))
             x == s[Len(s)]
         IN  IF \E i \in 1..Len(r) : r[i] = x THEN r ELSE Append(r, x)

\* line 407
range_keywords == << <<"l","t","v">>, <<"i","n","t","e","r","e","s","t","_","r","a","t","e">>, <<"p","r","o","c","e","s","s","i","n","g","_","f","e","e">>, <<"a","g","e">>, <<"i","n","c","o","m","e">>,
                     <<"t","e","n","u","r","e">> >>

\* lines 409-414: the keys of range_facts in insertion order
RECURSIVE RangeCategories(_)
RangeCategories(facts) ==
    IF facts = <<>> THEN <<>>
    ELSE Distinct(RangeCategories(SubSeq(facts, 1, Len(facts) - 1))
                  \o SelectSeq(range_keywords,
                               LAMBDA kw : Contains(Lower(facts[Len(facts)].key), kw)))

CategoryFacts(facts, kw) == SelectSeq(facts, LAMBDA fact : Contains(Lower(fact.key), kw))

\* case-insensitive match of a lower-case word at index i
WordAt(s, w, i) == StartsAt(Lower(s), w, i)

\* the index after \s* from i
SkipWs(s, i) == SpanEnd(s, i, SpaceSet)

\* the index after (?:%|L|Cr|K)? from i
SkipUnit(s, i) ==
    IF At(s, i) = "%" \/ LowerC(At(s, i)) \in {"l", "k"} THEN i + 1
    ELSE IF WordAt(s, <<"c","r">>, i) THEN i + 2
    ELSE i

\* the index after (?:-|–|—|to) from i, 0 when it does not match
SkipSeparator(s, i) ==
    IF At(s, i) \in {"-", EnDash, EmDash} THEN i + 1
    ELSE IF WordAt(s, <<"t","o">>, i) THEN i + 2
    ELSE 0

\* the first pattern of line 444 matched at index i
TwoNumbersAt(s, i) ==
    LET e1  == NumberEnd(s, i)
        sep == IF e1 = 0 THEN 0 ELSE SkipSeparator(s, SkipWs(s, SkipUnit(s, SkipWs(s, e1))))
        b2  == IF sep = 0 THEN 0 ELSE SkipWs(s, sep)
        e2  == IF b2 = 0 THEN 0 ELSE NumberEnd(s, b2)
    IN  IF e2 = 0 THEN [ok |-> FALSE]
        ELSE [ok |-> TRUE, g1 |-> SubSeq(s, i, e1 - 1), g2 |-> SubSeq(s, b2, e2 - 1)]

\* word \s+ number at index i (lines 446, 447)
WordNumberAt(s, w, i) ==
    LET a == i + Len(w)
        b == SkipWs(s, a)
        e == NumberEnd(s, b)
    IN  IF WordAt(s, w, i) /\ b > a /\ e # 0
        THEN [ok |-> TRUE, g1 |-> SubSeq(s, b, e - 1)]
        ELSE [ok |-> FALSE]

\* up \s+ to \s+ number at index i (line 445)
UpToAt(s, i) ==
    LET a == i + 2
        b == SkipWs(s, a)
    IN  IF WordAt(s, <<"u","p">>, i) /\ b > a
        THEN WordNumberAt(s, <<"t","o">>, b)
        ELSE [ok |-> FALSE]

\* re.search: the match at the leftmost index where the pattern matches
RangePatternAt(p, s, i) ==
    CASE p = 1 -> TwoNumbersAt(s, i)
      [] p = 2 -> UpToAt(s, i)
      [] p = 3 -> WordNumberAt(s, <<"m","i","n","i","m","u","m">>, i)
      [] p = 4 -> WordNumberAt(s, <<"m","a","x","i","m","u","m">>, i)

MatchAtFirst(p, s, hits) ==
    IF hits = {} THEN [ok |-> FALSE] ELSE RangePatternAt(p, s, Min(hits))

RangeSearch(p, s) == MatchAtFirst(p, s, { i \in 1..Len(s) : RangePatternAt(p, s, i).ok })

NumRangePatterns == 4

Zero == [num |-> 0, den |-> 1]
Infinity == [num |-> 1, den |-> 0]
Number(g) == [num |-> ParseDecimal(g).num, den |-> ParseDecimal(g).den]

\* lines 453-480: the range a match of pattern p gives; a one-number match
\* gives a range only when the value names its kind
RangeOfMatch(fact, p, m) ==
    IF p = 1
    THEN << [fact |-> fact, min |-> Number(m.g1), max |-> Number(m.g2),
             type |-> "range"] >>
    ELSE IF Contains(Lower(fact.value), <<"u","p"," ","t","o">>)
    THEN << [fact |-> fact, min |-> Zero, max |-> Number(m.g1),
             type |-> "upper_bound"] >>
    ELSE IF Contains(Lower(fact.value), <<"m","i","n","i","m","u","m">>)
    THEN << [fact |-> fact, min |-> Number(m.g1), max |-> Infinity,
             type |-> "lower_bound"] >>
    ELSE IF Contains(Lower(fact.value), <<"m","a","x","i","m","u","m">>)
    THEN << [fact |-> fact, min |-> Zero, max |-> Number(m.g1),
             type |-> "upper_bound"] >>
    ELSE <<>>

\* lines 450-481 for one fact: the first pattern that matches decides, and
\* the loop breaks there
RangeOfFirst(fact, hits) ==
    IF hits = {} THEN <<>>
    ELSE RangeOfMatch(fact, Min(hits), RangeSearch(Min(hits), fact.value))

extract_range(fact) ==
    RangeOfFirst(fact, { p \in 1..NumRangePatterns : RangeSearch(p, fact.value).ok })

\* lines 435-483
extract_ranges(facts) == Flatten([i \in 1..Len(facts) |-> extract_range(facts[i])])

\* comparison of two bounds, each a fraction or infinity
IsInf(x) == x.den = 0
Equal(x, y) ==
    IF IsInf(x) \/ IsInf(y) THEN IsInf(x) /\ IsInf(y)
    ELSE x.num * y.den = y.num * x.den
Less(x, y) ==
    IF IsInf(x) THEN FALSE
    ELSE IF IsInf(y) THEN TRUE
    ELSE x.num * y.den < y.num * x.den

\* lines 502-515 for two finite ranges, over one denominator
SmallOverlap(range1, range2) ==
    LET d  == MaxOf(MaxOf(range1.min.den, range1.max.den),
                    MaxOf(range2.min.den, range2.max.den))
        lo1 == Scaled(range1.min, d)
        hi1 == Scaled(range1.max, d)
        lo2 == Scaled(range2.min, d)
        hi2 == Scaled(range2.max, d)
        overlap_start == MaxOf(lo1, lo2)
        overlap_end   == MinOf(hi1, hi2)
    IN  /\ overlap_start <= overlap_end
        /\ 20 * (overlap_end - overlap_start) < 3 * ((hi1 - lo1) + (hi2 - lo2))

\* lines 485-517 without the branch of lines 497-499
ranges_overlap_one_way(range1, range2) ==
    IF Equal(range1.min, range1.max) /\ Equal(range2.min, range2.max)
    THEN ~Equal(range1.min, range2.min)
    ELSE IF /\ range1.type = "upper_bound" /\ range2.type = "lower_bound"
            /\ Less(range1.max, range2.min)
    THEN TRUE
    ELSE IF range1.type = "range" /\ range2.type = "range"
    THEN SmallOverlap(range1, range2)
    ELSE FALSE

\* lines 485-517
ranges_overlap_contradictory(range1, range2) ==
    IF Equal(range1.min, range1.max) /\ Equal(range2.min, range2.max)
    THEN ~Equal(range1.min, range2.min)
    ELSE IF /\ range1.type = "upper_bound" /\ range2.type = "lower_bound"
            /\ Less(range1.max, range2.min)
    THEN TRUE
    ELSE IF /\ range1.type = "lower_bound" /\ range2.type = "upper_bound"
            /\ Less(range2.max, range1.min)
    THEN TRUE
    ELSE IF range1.type = "range" /\ range2.type = "range"
    THEN SmallOverlap(range1, range2)
    ELSE FALSE

\* lines 424-431 for one pair of ranges
range_conflict(range1, range2, category) ==
    IF ranges_overlap_contradictory(range1, range2)
    THEN << [type |-> "overlapping_ranges",
             category |-> category,
             conflicting_ranges |-> <<range1, range2>>,
             severity |-> "high",
             recommendation |-> "Mark as SUSPECT - contradictory range information"] >>
    ELSE <<>>

\* lines 422-431: every pair of ranges, earlier with later
ranges_conflicts(ranges, pairs, category) ==
    Flatten([n \in 1..Len(pairs) |->
                range_conflict(ranges[pairs[n][1]], ranges[pairs[n][2]], category)])

RangesOfCategory(ranges, category) ==
    ranges_conflicts(ranges, Pairs(Len(ranges)), category)

\* lines 417-431 for one category
CategoryConflictsOf(category_facts, category) ==
    IF Len(category_facts) > 1
    THEN RangesOfCategory(extract_ranges(category_facts), category)
    ELSE <<>>

category_conflicts(facts, category) ==
    CategoryConflictsOf(CategoryFacts(facts, category), category)

RangeConflictsIn(facts, categories) ==
    Flatten([c \in 1..Len(categories) |-> category_conflicts(facts, categories[c])])

\* lines 401-433
detect_range_conflicts(facts) == RangeConflictsIn(facts, RangeCategories(facts))

\* lines 362-368: the keys of fact_groups in insertion order
GroupKeys(facts) == Distinct([i \in 1..Len(facts) |-> facts[i].key])

\* lines 351-380
detect_conflicts(facts) ==
    Flatten([g \in 1..Len(GroupKeys(facts)) |->
        LET k == GroupKeys(facts)[g]
            group_facts == SelectSeq(facts, LAMBDA fact : fact.key = k)
        IN  IF Len(group_facts) > 1 THEN detect_group_conflicts(k, group_facts) ELSE <<>>])
    \o detect_range_conflicts(facts)

\* ------------------------------------------------------------------------
\* table_parser.parse_ltv_table
\* ------------------------------------------------------------------------
Max(S) == CHOOSE x \in S : \A y \in S : x >= y

\* positions in a text: the index after a regex piece matched at index i,
\* 0 when the piece does not match or i is 0 already
\* a literal word, given in lower case, under re.IGNORECASE
AfterWord(ls, w, i) == IF i > 0 /\ StartsAt(ls, w, i) THEN i + Len(w) ELSE 0
\* \s*
AfterWs(s, i) == IF i = 0 THEN 0 ELSE SpanEnd(s, i, SpaceSet)
\* \s+
AfterWs1(s, i) == IF i = 0 \/ At(s, i) \notin SpaceSet THEN 0 ELSE SpanEnd(s, i, SpaceSet)
\* [:\s]*
AfterColons(s, i) == IF i = 0 THEN 0 ELSE SpanEnd(s, i, SpaceSet \cup {":"})
\* [0-9]+
AfterDigits(s, i) == IF i = 0 \/ At(s, i) \notin DigitChars THEN 0 ELSE SpanEnd(s, i, DigitChars)
\* one optional character of a set
AfterOptional(s, i, set) == IF i = 0 THEN 0 ELSE IF At(s, i) \in set THEN i + 1 ELSE i
\* one character
AfterChar(s, i, c) == IF i > 0 /\ At(s, i) = c THEN i + 1 ELSE 0
\* an optional group: the index after it when it matches, else where it began
OrElse(after, i) == IF after # 0 THEN after ELSE i

\* the text of a group that spans [b, e), None when the group took no part
GroupText(s, b, e) == IF e > b THEN SubSeq(s, b, e - 1) ELSE None

\* the unit alternatives of LTV_ROW in the order the pattern tries them; the
\* pattern ends there, so the first alternative that fits is the unit
LtvUnits == << <<"l">>, <<"l","a","k","h">>, <<"l","a","c">>, <<"c","r","o","r","e">>, <<"c","r">>, <<"k">>, <<"t","h","o","u","s","a","n","d">> >>

UnitEnd(ls, c) ==
    LET fits == { n \in 1..Len(LtvUnits) : StartsAt(ls, LtvUnits[n], c) }
    IN  IF fits = {} THEN c ELSE c + Len(LtvUnits[Min(fits)])

\* (?:\s*(?:-|–|to)\s*₹?\s*(?P<upper>[0-9,]+))? begun at index a: where the
\* upper group begins, 0 when the optional part does not match
UpperBegin(s, ls, a) ==
    LET b1 == AfterWs(s, a)
        b2 == IF At(s, b1) \in {"-", EnDash} THEN b1 + 1 ELSE AfterWord(ls, <<"t","o">>, b1)
        b5 == AfterWs(s, AfterOptional(s, AfterWs(s, b2), {"₹"}))
    IN  IF b5 # 0 /\ At(s, b5) \in DigitComma THEN b5 ELSE 0

\* the tail of LTV_ROW from the index a after the lower group
LtvRowTail(s, ls, i, e, lo, a, ub) ==
    LET a8 == IF ub = 0 THEN a ELSE SpanEnd(s, ub, DigitComma)
        c1 == AfterWs(s, a8)
    IN  [ok |-> TRUE, start |-> i, end |-> UnitEnd(ls, c1),
         pct |-> SubSeq(s, i, e - 1),
         lower |-> GroupText(s, lo, a),
         upper |-> IF ub = 0 THEN None ELSE SubSeq(s, ub, a8 - 1),
         unit |-> GroupText(s, c1, UnitEnd(ls, c1))]

LtvRowFrom(s, ls, i, e, lo) ==
    LtvRowTail(s, ls, i, e, lo, SpanEnd(s, lo, DigitComma),
               UpperBegin(s, ls, SpanEnd(s, lo, DigitComma)))

\* LTV_ROW (line 7) matched at index i
LtvRowAt(s, ls, i) ==
    LET e  == AfterDigits(s, i)
        p  == AfterChar(s, AfterWs(s, e), "%")
        a3 == AfterWs(s, AfterOptional(s, AfterWs(s, p), {"-", EnDash}))
        up == AfterWs(s, AfterWord(ls, <<"t","o">>, AfterWs(s, AfterWord(ls, <<"u","p">>, a3))))
    IN  IF p = 0 \/ e - i > 3 THEN [ok |-> FALSE]
        ELSE LtvRowFrom(s, ls, i, e, AfterWs(s, AfterOptional(s, OrElse(up, a3), {"₹"})))

\* LTV_ROW.finditer(text): the matches from index pos on, left to right, each
\* search beginning where the previous match ended
RECURSIVE LtvRowsFrom(_, _, _)
FirstRowThenRest(s, ls, hits) ==
    IF hits = {} THEN <<>>
    ELSE <<LtvRowAt(s, ls, Min(hits))>> \o LtvRowsFrom(s, ls, LtvRowAt(s, ls, Min(hits)).end)

LtvRowsFrom(s, ls, pos) ==
    FirstRowThenRest(s, ls, { i \in pos..Len(s) : LtvRowAt(s, ls, i).ok })

\* lines 13-16: int() raises ValueError on a group made of commas only
\* an Optional[int] is <<>> for None and <<n>> for the integer n
to_int(num) ==
    IF num = None THEN [raised |-> FALSE, int |-> <<>>]
    ELSE IF RemoveCommas(num) = <<>> THEN [raised |-> TRUE, int |-> <<>>]
    ELSE [raised |-> FALSE, int |-> <<DigitsToInt(RemoveCommas(num))>>]

\* lines 31-40 for one match
band(match) ==
    [min_amount |-> to_int(match.lower).int,
     max_amount |-> to_int(match.upper).int,
     unit |-> match.unit,
     ltv |-> match.pct \o <<"%">>]

BandsOf(rows) ==
    IF \E n \in 1..Len(rows) : to_int(rows[n].lower).raised \/ to_int(rows[n].upper).raised
    THEN [raised |-> TRUE, bands |-> <<>>]
    ELSE [raised |-> FALSE, bands |-> <<>> \o [n \in 1..Len(rows) |-> band(rows[n])]]

\* lines 19-41: the list of bands, or the ValueError of _to_int
parse_ltv_table(text) == BandsOf(LtvRowsFrom(text, Lower(text), 1))

\* ------------------------------------------------------------------------
\* RuleBasedExtractionService.extract
\* ------------------------------------------------------------------------
Miss == [ok |-> FALSE]
\* a match over [i, e) whose one named group spans [b, c)
Hit(s, i, e, name, b, c) ==
    [ok |-> TRUE, start |-> i, end |-> e, groups |-> (name :> SubSeq(s, b, c - 1))]

\* the greedy .* up to the last index of a set of continuations
NoNewlineIn(s, a, b) == \A k \in a..b : s[k] # "\n"

\* score[:\s]*(?P<score>[0-9]+) at index b, for a match begun at index i
ScoreAt(s, ls, i, b) ==
    LET c == AfterColons(s, AfterWord(ls, <<"s","c","o","r","e">>, b))
        e == AfterDigits(s, c)
    IN  IF e = 0 THEN Miss ELSE Hit(s, i, e, "score", c, e)

\* lines 109, 110: word\s+score[:\s]*(?P<score>[0-9]+)
WordScoreAt(s, ls, w, i) == ScoreAt(s, ls, i, AfterWs1(s, AfterWord(ls, w, i)))

\* line 111: minimum.*score[:\s]*(?P<score>[0-9]+); the greedy .* takes the
\* last 'score' of the line that a number follows
LastScore(s, ls, i, js) == IF js = {} THEN Miss ELSE ScoreAt(s, ls, i, Max(js))

MinimumScoreAt(s, ls, i) ==
    LastScore(s, ls, i,
              { j \in (i + 7)..Len(s) :
                  /\ AfterWord(ls, <<"m","i","n","i","m","u","m">>, i) # 0
                  /\ NoNewlineIn(s, i + 7, j - 1)
                  /\ ScoreAt(s, ls, i, j).ok })

\* (?P<pct>[0-9]+)\s*% at index d, for a match begun at index i
PctAt(s, i, d) ==
    LET e == AfterDigits(s, d)
        f == AfterChar(s, AfterWs(s, e), "%")
    IN  IF f = 0 THEN Miss ELSE Hit(s, i, f, "pct", d, e)

\* line 98: LTV[:\s]*(?:up\s+to\s+)?(?P<pct>[0-9]+)\s*%
LtvPctAt(s, ls, i) ==
    LET c == AfterColons(s, AfterWord(ls, <<"l","t","v">>, i))
        u == AfterWs1(s, AfterWord(ls, <<"t","o">>, AfterWs1(s, AfterWord(ls, <<"u","p">>, c))))
    IN  PctAt(s, i, OrElse(u, c))

\* line 99: loan\s+to\s+value[:\s]*(?P<pct>[0-9]+)\s*%
LoanToValueAt(s, ls, i) ==
    PctAt(s, i, AfterColons(s, AfterWord(ls, <<"v","a","l","u","e">>,
                   AfterWs1(s, AfterWord(ls, <<"t","o">>,
                      AfterWs1(s, AfterWord(ls, <<"l","o","a","n">>, i)))))))

\* line 100: (?P<pct>[0-9]+)\s*%.*LTV; the greedy .* takes the last 'LTV' of
\* the line
LastLtv(s, i, e, js) == IF js = {} THEN Miss ELSE Hit(s, i, Max(js) + 3, "pct", i, e)

PctThenLtvAt(s, ls, i) ==
    LET e == AfterDigits(s, i)
        f == AfterChar(s, AfterWs(s, e), "%")
    IN  IF f = 0 THEN Miss
        ELSE LastLtv(s, i, e, { j \in f..Len(s) :
                                  NoNewlineIn(s, f, j - 1) /\ StartsAt(ls, <<"l","t","v">>, j) })

Frequencies == << <<"m","o","n","t","h","l","y">>, <<"q","u","a","r","t","e","r","l","y">>, <<"a","n","n","u","a","l","l","y">>, <<"y","e","a","r","l","y">> >>

\* \s*[:\-]?\s*(?P<freq>monthly|quarterly|annually|yearly) at index b
FreqFrom(s, ls, i, c, fits) ==
    IF c = 0 \/ fits = {} THEN Miss
    ELSE Hit(s, i, c + Len(Frequencies[Min(fits)]), "freq", c, c + Len(Frequencies[Min(fits)]))

FreqAt(s, ls, i, b) ==
    FreqFrom(s, ls, i, AfterWs(s, AfterOptional(s, AfterWs(s, b), {":", "-"})),
             { n \in 1..Len(Frequencies) :
                 StartsAt(ls, Frequencies[n],
                          AfterWs(s, AfterOptional(s, AfterWs(s, b), {":", "-"}))) })

\* line 266: reset\s*(?:period|frequency)\s*[:\-]?\s*(?P<freq>...)
ResetAt(s, ls, i) ==
    LET a == AfterWs(s, AfterWord(ls, <<"r","e","s","e","t">>, i))
    IN  FreqAt(s, ls, i, OrElse(AfterWord(ls, <<"p","e","r","i","o","d">>, a), AfterWord(ls, <<"f","r","e","q","u","e","n","c","y">>, a)))

\* line 267: rate\s*change\s*[:\-]?\s*(?P<freq>...)
RateChangeAt(s, ls, i) ==
    FreqAt(s, ls, i, AfterWord(ls, <<"c","h","a","n","g","e">>, AfterWs(s, AfterWord(ls, <<"r","a","t","e">>, i))))

\* the keys of PATTERNS this model covers, in the order of the dict, each
\* with the number of patterns of its list
PATTERNS == <<
    [key |-> <<"l","o","a","n","_","a","m","o","u","n","t","_","a","n","d","_","l","t","v",".","l","t","v","_","r","a","t","i","o">>, patterns |-> 3],
    [key |-> <<"e","l","i","g","i","b","i","l","i","t","y",".","c","i","b","i","l","_","s","c","o","r","e">>, patterns |-> 3],
    [key |-> <<"i","n","t","e","r","e","s","t","_","r","a","t","e","s",".","r","e","s","e","t","_","f","r","e","q","u","e","n","c","y">>, patterns |-> 2] >>

\* pattern n of the list of key k, matched at index i
PatternAt(k, n, s, ls, i) ==
    CASE k = 1 /\ n = 1 -> LtvPctAt(s, ls, i)
      [] k = 1 /\ n = 2 -> LoanToValueAt(s, ls, i)
      [] k = 1 /\ n = 3 -> PctThenLtvAt(s, ls, i)
      [] k = 2 /\ n = 1 -> WordScoreAt(s, ls, <<"c","i","b","i","l">>, i)
      [] k = 2 /\ n = 2 -> WordScoreAt(s, ls, <<"c","r","e","d","i","t">>, i)
      [] k = 2 /\ n = 3 -> MinimumScoreAt(s, ls, i)
      [] k = 3 /\ n = 1 -> ResetAt(s, ls, i)
      [] k = 3 /\ n = 2 -> RateChangeAt(s, ls, i)

\* line 408, pat.search(text): the match at the leftmost index
LeftmostMatch(k, n, s, ls, hits) ==
    IF hits = {} THEN Miss ELSE PatternAt(k, n, s, ls, Min(hits))

PatternSearch(k, n, s, ls) ==
    LeftmostMatch(k, n, s, ls, { i \in 1..Len(s) : PatternAt(k, n, s, ls, i).ok })

\* str.title(): a letter is upper-cased after a non-letter, else lower-cased
Title(w) ==
    <<>> \o [i \in 1..Len(w) |->
                IF i > 1 /\ (w[i - 1] \in LowerSet \/ w[i - 1] \in UpperSet)
                THEN LowerC(w[i]) ELSE UpperC(w[i])]

HasGroup(m, g) == g \in DOMAIN m.groups

\* lines 412-459, for the groups the patterns above name; no pattern of the
\* keys covered has another group, and each has one
match_value(m, s) ==
    IF HasGroup(m, "pct") /\ HasGroup(m, "pct2")
    THEN m.groups["pct"] \o <<"%"," ","t","o"," ">> \o m.groups["pct2"] \o <<"%">>
    ELSE IF HasGroup(m, "pct") THEN m.groups["pct"] \o <<"%">>
    ELSE IF HasGroup(m, "amt") THEN Strip(m.groups["amt"])
    ELSE IF HasGroup(m, "freq") THEN Title(m.groups["freq"])
    ELSE IF HasGroup(m, "score") THEN m.groups["score"]
    ELSE Strip(SubSeq(s, m.start, m.end - 1))

\* filename or 'document'
NameOf(filename) == IF filename = None \/ filename = <<>> THEN <<"d","o","c","u","m","e","n","t">> ELSE filename

Fact(k, v, c, src, ref) ==
    [key |-> k, value |-> v, confidence |-> c, source_page |-> None,
     source_text |-> src, coordinates |-> None,
     source_reference |-> ref, effective_date |-> None]

\* lines 461-471: the fact of a match; m.start and m.end count from 1 here
\* and from 0 in the source
pattern_fact(k, m, text, filename) ==
    Fact(PATTERNS[k].key, match_value(m, text), 75,
         SubSeq(text, MaxOf(m.start - 61, 0) + 1, MinOf(m.end + 59, Len(text))),
         NameOf(filename) \o <<":","~">> \o IntToStr(m.start - 1) \o <<"-">> \o IntToStr(m.end - 1))

\* every pattern of the list is consulted and the last one that matches
\* decides
last_match(matching) == Max(matching)

\* lines 407-410 and 472: the patterns are tried in list order and the loop
\* breaks at the first one that matches
first_match(matching) == Min(matching)

KeyFactOf(k, text, ls, filename, matching) ==
    IF matching = {} THEN <<>>
    ELSE <<pattern_fact(k, PatternSearch(k, first_match(matching), text, ls), text, filename)>>

\* lines 406-472 for one key
key_facts(k, text, ls, filename) ==
    KeyFactOf(k, text, ls, filename,
              { n \in 1..PATTERNS[k].patterns : PatternSearch(k, n, text, ls).ok })

\* json.dumps of an Optional[int], an Optional[str], a list of bands
JsonInt(x) == IF x = <<>> THEN <<"n","u","l","l">> ELSE IntToStr(x[1])
JsonStr(x) == IF x = None THEN <<"n","u","l","l">> ELSE <<"\"">> \o x \o <<"\"">>
JsonBand(b) ==
    <<"{","\"","m","i","n","_","a","m","o","u","n","t","\"",":"," ">> \o JsonInt(b.min_amount) \o <<","," ","\"","m","a","x","_","a","m","o","u","n","t","\"",":"," ">> \o JsonInt(b.max_amount)
    \o <<","," ","\"","u","n","i","t","\"",":"," ">> \o JsonStr(b.unit) \o <<","," ","\"","l","t","v","\"",":"," ">> \o JsonStr(b.ltv) \o <<"}">>
JsonBands(bands) ==
    <<"[">> \o Join(<<>> \o [n \in 1..Len(bands) |-> JsonBand(bands[n])], <<","," ">>) \o <<"]">>

\* lines 475-489: the fact for the parsed bands; an exception of the parser
\* is swallowed
BandsFact(table, filename) ==
    IF table.raised \/ table.bands = <<>> THEN <<>>
    ELSE <<Fact(<<"l","o","a","n","_","a","m","o","u","n","t","_","a","n","d","_","l","t","v",".","l","t","v","_","b","a","n","d","s">>, JsonBands(table.bands), 70,
                <<"D","e","t","e","c","t","e","d"," ","L","T","V"," ","t","a","b","l","e"," ","i","n"," ","d","o","c","u","m","e","n","t"," ","t","e","x","t">>,
                NameOf(filename) \o <<":","~","l","t","v","_","t","a","b","l","e">>)>>

AllKeyFacts(text, ls, filename) ==
    Flatten([k \in 1..Len(PATTERNS) |-> key_facts(k, text, ls, filename)])

\* the list of the previous call is used again
facts_kept(previous) == previous

\* line 401: each call binds facts to a new empty list
facts_at_entry(previous) == <<>>

\* lines 402-491, given the list bound at line 401
extract_into(facts, text, filename) ==
    IF text = <<>> THEN facts
    ELSE facts \o AllKeyFacts(text, Lower(text), filename)
               \o BandsFact(parse_ltv_table(text), filename)

\* lines 400-491
extract(text, filename) == extract_into(<<>>, text, filename)

\* ------------------------------------------------------------------------
\* State
\* ------------------------------------------------------------------------
VARIABLES
    key,        \* the raw key handed to _normalize_key
    keyHist,    \* <<key, _normalize_key(key), _normalize_key of that, ...>>
    val,        \* the raw value handed to _normalize_value
    vkey,       \* the key it is normalized under
    valHist,    \* <<val, _normalize_value(val, vkey), ... of that, ...>>
    inFacts,    \* the list handed to normalize_facts
    outFacts,   \* the list it returned
    nfDone,     \* whether normalize_facts has returned
    pc,         \* the statement extract_facts_smart is at
    llm_service,\* whether the service was built with a collaborator
    rule_facts, \* what the rule extractor returned
    gaps,       \* what _analyze_gaps returned
    llm_outcome,\* how the call of the collaborator ended
    llm_facts,  \* the externally-derived facts that are kept
    all_facts,  \* rule_facts + llm_facts
    result,     \* what extract_facts_smart returned
    llmCalls,   \* the number of calls of the collaborator
    trace,      \* the phases executed so far, in order
    cfFacts,    \* the list handed to detect_conflicts
    conflicts,  \* the list it returned
    cfDone,     \* whether detect_conflicts has returned
    rxText,     \* the text handed to extract and to parse_ltv_table
    rxFile,     \* the filename handed to extract
    rxFacts,    \* the list facts of the latest call of extract
    rxResults,  \* what the calls of extract on rxText returned, in order
    rxCalls,    \* the number of calls of extract so far
    tbl,        \* how the call of parse_ltv_table on rxText ended
    documents,  \* the storage service's _documents: id -> stored document
    stats,      \* the processor's statistics
    document_ids,\* the list handed to batch_process_documents
    batch,      \* where the call of batch_process_documents is
    tasks,      \* where each process_single task is, by position in document_ids
    semaphore,  \* the value of the semaphore of the batch
    results,    \* the results dictionary of the batch
    calls,      \* how each task's call of process_document ended
    reprocessed \* how the call of reprocess_failed_documents ended

keyVars == <<key, keyHist>>
valVars == <<val, vkey, valHist>>
normVars == <<inFacts, outFacts, nfDone>>
smartVars == <<pc, llm_service, rule_facts, gaps, llm_outcome, llm_facts, all_facts,
               result, llmCalls, trace>>
conflictVars == <<cfFacts, conflicts, cfDone>>
ruleVars == <<rxText, rxFile, rxFacts, rxResults, rxCalls, tbl>>
docVars == <<documents, stats, document_ids, batch, tasks, semaphore, results, calls,
             reprocessed>>
vars == <<key, keyHist, val, vkey, valHist, inFacts, outFacts, nfDone,
          pc, llm_service, rule_facts, gaps, llm_outcome, llm_facts, all_facts,
          result, llmCalls, trace, cfFacts, conflicts, cfDone,
          rxText, rxFile, rxFacts, rxResults, rxCalls, tbl,
          documents, stats, document_ids, batch, tasks, semaphore, results, calls,
          reprocessed>>

KeyIdle == key = <<>> /\ keyHist = <<>>
ValIdle == val = <<>> /\ vkey = <<>> /\ valHist = <<>>
NormIdle == inFacts = <<>> /\ outFacts = <<>> /\ nfDone = FALSE
ConflictIdle == cfFacts = <<>> /\ conflicts = <<>> /\ cfDone = FALSE
NotCalled == [state |-> "not called"]
RuleIdle ==
    /\ rxText = <<>> /\ rxFile = None /\ rxFacts = <<>> /\ rxResults = <<>>
    /\ rxCalls = 0 /\ tbl = NotCalled
NoOutcome == [kind |-> "none"]
SmartIdle ==
    /\ pc = "idle" /\ llm_service = FALSE /\ rule_facts = <<>> /\ gaps = <<>>
    /\ llm_outcome = NoOutcome /\ llm_facts = <<>> /\ all_facts = <<>>
    /\ result = <<>> /\ llmCalls = 0 /\ trace = <<>>

\* enhanced_document_processor.py lines 41-47: the counters of a new processor
NewStats == [total_processed |-> 0, successful |-> 0, failed |-> 0]
\* lines 160-165: the results of a batch that has not counted anything
NewResults == [processed |-> 0, successful |-> 0, failed |-> 0, errors |-> <<>>]
DocIdle ==
    /\ documents = <<>> /\ stats = NewStats /\ document_ids = <<>>
    /\ batch = "idle" /\ tasks = <<>> /\ semaphore = 0 /\ results = NewResults
    /\ calls = <<>> /\ reprocessed = NotCalled

\* ------------------------------------------------------------------------
\* Repeated key normalization
\* ------------------------------------------------------------------------
\* raw keys: an optional section prefix, then 1..MaxKeyParts field fragments
\* joined by '_'
KeyPrefixes == { <<>>, <<"-",".">>, <<"f","e","e","s",".">>, <<"F","e","e","s"," ","&"," ","C","h","a","r","g","e","s",".">> }
KeyFragments == { <<"a","d","m","i","n","_","f","e","e">>, <<"h","a","n","d","l","i","n","g","_","c","h","a","r","g","e","s">>, <<"c","r","e","d","i","t","_","s","c","o","r","e">>,
                  <<"b","u","r","e","a","u","_","s","c","o","r","e">>, <<"f","o","r","e","c","l","o","s","u","r","e">>, <<"p","r","e","_","c","l","o","s","u","r","e">>,
                  <<"t","e","r","m">>, <<"r","o","i">>, <<"A","d","m","i","n"," ","F","e","e">>, <<"b",".","c">>,
                  <<"(","R","O","I",")">> }

\* the sequences of n elements of the set S
RECURSIVE SeqsOfLen(_, _)
SeqsOfLen(S, n) ==
    IF n = 0 THEN { <<>> }
    ELSE { <<f>> \o r : f \in S, r \in SeqsOfLen(S, n - 1) }

KeyInputs ==
    { p \o Join(fs, <<"_">>) :
        p \in KeyPrefixes,
        fs \in UNION { SeqsOfLen(KeyFragments, n) : n \in 1..MaxKeyParts } }

InitKey ==
    /\ key \in KeyInputs
    /\ keyHist = <<key>>
    /\ ValIdle /\ NormIdle /\ SmartIdle /\ ConflictIdle /\ RuleIdle /\ DocIdle

NormalizeKey ==
    /\ keyHist # <<>>
    /\ Len(keyHist) <= MaxApps
    /\ keyHist' = Append(keyHist, normalize_key(keyHist[Len(keyHist)]))
    /\ UNCHANGED docVars
    /\ UNCHANGED <<key, valVars, normVars, smartVars, conflictVars, ruleVars>>

NextKey == NormalizeKey

SpecKey == InitKey /\ [][NextKey]_vars

\* C1: key normalization is idempotent: normalizing a normalized key leaves
\* it unchanged, for every raw key
KeyIdempotent == Len(keyHist) >= 3 => keyHist[3] = keyHist[2]

WellFormedKey(k) ==
    \A i \in 1..Len(k) :
        /\ k[i] \in LowerSet \cup DigitChars \cup {"_", "."}
        /\ k[i] = "_" =>
            /\ 1 < i /\ i < Len(k)
            /\ k[i - 1] \notin {"_", "."}
            /\ k[i + 1] \notin {"_", "."}

DotCount(k) == Cardinality({ i \in 1..Len(k) : k[i] = "." })

\* C16: every output key of key normalization is well formed: each dotted
\* segment holds only lower-case letters, digits and single underscores, with
\* no leading, trailing or doubled underscore (a segment may be empty); the
\* output holds exactly one '.' when the input holds a '.', and none otherwise
OutputKeyWellFormed ==
    \A i \in 2..Len(keyHist) :
        /\ WellFormedKey(keyHist[i])
        /\ DotCount(keyHist[i]) = IF Contains(keyHist[i - 1], <<".">>) THEN 1 ELSE 0

\* a key with an upper-case section holding ' & ', and a field holding a
\* space, a second '.', brackets and two synonyms, was normalized
WellFormedWitness ==
    /\ Len(keyHist) >= 2
    /\ keyHist[1] = <<"F","e","e","s"," ","&"," ","C","h","a","r","g","e","s",".","b",".","c","_","(","R","O","I",")">>
    /\ keyHist[2] = <<"f","e","e","s","_","c","h","a","r","g","e","s",".","b","_","c","_","i","n","t","e","r","e","s","t","_","r","a","t","e">>

\* an input with an empty section and a bracketed field gave an empty segment
EmptySegmentWitness ==
    /\ Len(keyHist) >= 2
    /\ keyHist[1] = <<"-",".","(","R","O","I",")">>
    /\ keyHist[2] = <<".","i","n","t","e","r","e","s","t","_","r","a","t","e">>

\* the field and the section of a raw key after lower-casing, replacing,
\* collapsing and stripping, before the synonym loop
FieldBeforeSynonyms(k) ==
    IF Contains(k, <<".">>) THEN NormalizeSegment(SplitField(k)) ELSE NormalizeSegment(k)
SectionBeforeSynonyms(k) ==
    IF Contains(k, <<".">>) THEN NormalizeSegment(SplitSection(k)) ELSE <<>>
FieldOf(k) == IF Contains(k, <<".">>) THEN SplitField(k) ELSE k
SectionOf(k) == IF Contains(k, <<".">>) THEN SplitSection(k) ELSE <<>>

\* a field that held one of the synonyms holds the canonical term instead
Absorbed(before, after, syns, canon) ==
    (\E s \in syns : Contains(before, s)) =>
        /\ Contains(after, canon)
        /\ \A s \in syns : ~Contains(after, s)

\* C24: synonym mapping rewrites a field towards its canonical term: after
\* _normalize_key a field that held 'credit_score' or 'bureau_score' holds
\* 'cibil' instead, a field that held 'foreclosure' or 'pre_closure' holds
\* 'prepayment' instead, and the section segment is never rewritten
SynonymsAbsorbed ==
    Len(keyHist) >= 2 =>
        /\ Absorbed(FieldBeforeSynonyms(key), FieldOf(keyHist[2]),
                    { <<"c","r","e","d","i","t","_","s","c","o","r","e">>, <<"b","u","r","e","a","u","_","s","c","o","r","e">> }, <<"c","i","b","i","l">>)
        /\ Absorbed(FieldBeforeSynonyms(key), FieldOf(keyHist[2]),
                    { <<"f","o","r","e","c","l","o","s","u","r","e">>, <<"p","r","e","_","c","l","o","s","u","r","e">> }, <<"p","r","e","p","a","y","m","e","n","t">>)
        /\ SectionOf(keyHist[2]) = SectionBeforeSynonyms(key)

\* ------------------------------------------------------------------------
\* Repeated value normalization
\* ------------------------------------------------------------------------
ValueKeys == { <<"l","o","a","n","_","a","m","o","u","n","t","_","a","n","d","_","l","t","v",".","s","a","n","c","t","i","o","n","e","d","_","a","m","o","u","n","t">>,
               <<"f","e","e","s","_","a","n","d","_","c","h","a","r","g","e","s",".","p","r","o","c","e","s","s","i","n","g","_","f","e","e">>,
               <<"i","n","t","e","r","e","s","t","_","r","a","t","e","s",".","m","a","r","g","i","n">>,
               <<"r","e","p","a","y","m","e","n","t",".","t","e","n","u","r","e">>,
               <<"r","e","p","a","y","m","e","n","t",".","e","m","i","_","a","m","o","u","n","t">>,
               <<"r","e","p","a","y","m","e","n","t",".","e","m","i","_","c","u","r","r","e","n","c","y">>,
               <<"g","r","i","e","v","a","n","c","e",".","p","r","o","c","e","s","s">> }

\* compound fee values 'X% or <marker>Y whichever is higher|lower'
CompoundPcts == { <<"1",".","5","0">>, <<"2">> }
CompoundAmts == { <<"4",",","5","0","0">>, <<"5","0">> }
CompoundValue(x, y, w) == x \o <<"%"," ","o","r"," ","₹">> \o y \o <<" ","w","h","i","c","h","e","v","e","r"," ","i","s"," ">> \o w
CompoundValues ==
    { CompoundValue(x, y, w) : x \in CompoundPcts, y \in CompoundAmts,
                               w \in { <<"h","i","g","h","e","r">>, <<"l","o","w","e","r">> } }

\* abbreviated amounts '<n>L' and '<n>Cr'
AbbrevNumbers == { <<"5">>, <<"2">>, <<"1","2">> }
AbbrevValues == { n \o u : n \in AbbrevNumbers, u \in { <<"L">>, <<"C","r">> } }

ValueAtoms ==
    CompoundValues \cup AbbrevValues \cup
    { <<"5"," ","L","a","k","h","s">>, <<"2"," ","C","r","o","r","e","s">>, <<"5","0","0","K">>, <<"₹","4",",","5","0","0">>, <<"R","s","."," ","5",",","0","0","0"," ","o","n","l","y">>,
      <<"I","N","R"," ","5","0","0",",","0","0","0">>, <<"₹","1",",","0","0","0",".","5","0">>, <<"R","s"," ","2","5","0">>,
      <<"0",".","5","0","%"," ","t","o"," ","3",".","0","0","%">>,
      <<"₹","2"," ","C","r","o","r","e"," ","l","o","a","n">>, <<"R","s"," ","1","0",",","0","0","0"," ","p","e","r"," ","c","h","e","c","k">>, <<"R","s","."," ","2"," ","T","h","o","u","s","a","n","d">>, <<"2"," ","L","a","c">>,
      <<"2","%"," ","o","r"," ","R","s",".","5",",","0","0","0"," ","w","h","i","c","h","e","v","e","r"," ","i","s"," ","l","o","w","e","r">>, <<"1",".","5","0","%"," ","o","r"," ","₹","4",",","5","0","0">>,
      <<"0",".","5","%"," ","O","R"," ","I","N","R"," ","1",",","0","0","0"," ","W","h","i","c","h","e","v","e","r"," ","I","s"," ","H","i","g","h","e","r">>,
      <<"1","%"," ","t","o"," ","3","%">>, <<"8",".","5","%">>, <<"2","%">>, <<"1","0",".","2","5"," ","p","e","r","c","e","n","t">>, <<"8",".","5","%"," ","p",".","a",".">>,
      <<"5"," ","y","e","a","r","s">>, <<"1","2",".","5"," ","m","o","n","t","h","s">>, <<"7","5","0">>, <<"9","9">>, <<"5">>,
      <<"_","_","_">>, <<>>, <<"N",".","A",".">>, <<"a","s"," ","a","p","p","l","i","c","a","b","l","e">>, <<"["," ","]">>, <<"n","o","t"," "," ","f","o","u","n","d">>,
      <<"M","o","n","t","h","l","y"," "," ","b","a","s","i","s","."," ","o","n"," ","r","e","q","u","e","s","t">> }

ValueFragments == { <<"5","L">>, <<"₹","4",",","5","0","0">>, <<"2","%">>, <<"t","o">>, <<"3","%">>, <<"N",".","A",".">>,
                    <<"u","p","t","o">>, <<"7","5","0">> }

ValueInputs ==
    ValueAtoms \cup
    { Join(fs, <<" ">>) :
        fs \in UNION { SeqsOfLen(ValueFragments, n) : n \in 2..MaxValParts } }

InitValue ==
    /\ val \in ValueInputs
    /\ vkey \in ValueKeys
    /\ valHist = <<val>>
    /\ KeyIdle /\ NormIdle /\ SmartIdle /\ ConflictIdle /\ RuleIdle /\ DocIdle

NormalizeValue ==
    /\ valHist # <<>>
    /\ Len(valHist) <= MaxApps
    /\ valHist' = Append(valHist, normalize_value(valHist[Len(valHist)], vkey))
    /\ UNCHANGED docVars
    /\ UNCHANGED <<val, vkey, keyVars, normVars, smartVars, conflictVars, ruleVars>>

NextValue == NormalizeValue

SpecValue == InitValue /\ [][NextValue]_vars

\* C2: value normalization is idempotent: normalizing a normalized value
\* under the same key leaves it unchanged, for every value and key
ValueIdempotent == Len(valHist) >= 3 => valHist[3] = valHist[2]

\* C4: under a currency key an abbreviated amount '<n>L' normalizes to
\* INR n*100,000 and '<n>Cr' to INR n*10,000,000 ("5L" -> "INR 500,000",
\* "2Cr" -> "INR 20,000,000")
AbbreviatedUnitsConverted ==
    (/\ Len(valHist) >= 2
     /\ is_currency_field(vkey)
     /\ ~is_emi_amount(vkey)
     /\ ~Contains(Lower(vkey), <<"e","m","i","_","c","u","r","r","e","n","c","y">>))
    => \A n \in AbbrevNumbers :
          /\ val = n \o <<"L">>
                => valHist[2] = <<"I","N","R"," ">> \o GroupThousands(IntToStr(DigitsToInt(n) * 100000))
          /\ val = n \o <<"C","r">>
                => valHist[2] = <<"I","N","R"," ">> \o GroupThousands(IntToStr(DigitsToInt(n) * 10000000))

\* C5: under every key that does not contain 'emi_currency', the value
\* 'X% or ₹Y whichever is higher' normalizes to 'X% or ₹Y (use min)' and
\* 'X% or ₹Y whichever is lower' to 'X% or ₹Y (use max)', whatever type
\* (currency, percentage, numeric, EMI amount, text) the key stands for
CompoundFeeRule ==
    (Len(valHist) >= 2 /\ ~Contains(Lower(vkey), <<"e","m","i","_","c","u","r","r","e","n","c","y">>))
    => \A x \in CompoundPcts, y \in CompoundAmts :
          /\ val = CompoundValue(x, y, <<"h","i","g","h","e","r">>)
                => valHist[2] = x \o <<"%"," ","o","r"," ","₹">> \o y \o <<" ","(","u","s","e"," ","m","i","n",")">>
          /\ val = CompoundValue(x, y, <<"l","o","w","e","r">>)
                => valHist[2] = x \o <<"%"," ","o","r"," ","₹">> \o y \o <<" ","(","u","s","e"," ","m","a","x",")">>

CompoundFeeWitness ==
    /\ Len(valHist) >= 2
    /\ vkey = <<"f","e","e","s","_","a","n","d","_","c","h","a","r","g","e","s",".","p","r","o","c","e","s","s","i","n","g","_","f","e","e">>
    /\ val = <<"1",".","5","0","%"," ","o","r"," ","₹","4",",","5","0","0"," ","w","h","i","c","h","e","v","e","r"," ","i","s"," ","h","i","g","h","e","r">>
    /\ valHist[2] = <<"1",".","5","0","%"," ","o","r"," ","₹","4",",","5","0","0"," ","(","u","s","e"," ","m","i","n",")">>

\* currency amounts with the unit attached to the amount, and the amount
\* scaled by that unit's multiplier
UnitExamples ==
    { <<<<"5"," ","L","a","k","h","s">>, <<"I","N","R"," ","5","0","0",",","0","0","0">>>>,
      <<<<"2"," ","L","a","c">>, <<"I","N","R"," ","2","0","0",",","0","0","0">>>>,
      <<<<"2"," ","C","r","o","r","e","s">>, <<"I","N","R"," ","2","0",",","0","0","0",",","0","0","0">>>>,
      <<<<"5","0","0","K">>, <<"I","N","R"," ","5","0","0",",","0","0","0">>>>,
      <<<<"R","s","."," ","2"," ","T","h","o","u","s","a","n","d">>, <<"I","N","R"," ","2",",","0","0","0">>>>,
      <<<<"₹","4",",","5","0","0">>, <<"I","N","R"," ","4",",","5","0","0">>>>,
      <<<<"R","s"," ","2","5","0">>, <<"I","N","R"," ","2","5","0">>>>,
      <<<<"I","N","R"," ","5","0","0",",","0","0","0">>, <<"I","N","R"," ","5","0","0",",","0","0","0">>>>,
      <<<<"R","s","."," ","5",",","0","0","0"," ","o","n","l","y">>, <<"I","N","R"," ","5",",","0","0","0">>>>,
      <<<<"₹","2"," ","C","r","o","r","e"," ","l","o","a","n">>, <<"I","N","R"," ","2","0",",","0","0","0",",","0","0","0">>>>,
      <<<<"R","s"," ","1","0",",","0","0","0"," ","p","e","r"," ","c","h","e","c","k">>, <<"I","N","R"," ","1","0",",","0","0","0">>>> }

\* C21: the multiplier applied to a currency amount depends only on the unit
\* attached to the amount: Lakh/Lac x100,000, Crore x10,000,000, Thousand/K
\* x1,000, a bare marker x1, whatever other words the value holds ('Rs.
\* 5,000 only', 'Rs 10,000 per check'); the result is 'INR ' and the scaled
\* amount with thousands separators
MultiplierFollowsAttachedUnit ==
    (/\ Len(valHist) >= 2
     /\ is_currency_field(vkey)
     /\ ~is_emi_amount(vkey)
     /\ ~Contains(Lower(vkey), <<"e","m","i","_","c","u","r","r","e","n","c","y">>))
    => \A e \in UnitExamples : val = e[1] => valHist[2] = e[2]

\* percentage ranges 'A% to B%' and their normal form 'A%-B%'
PercentRanges ==
    { <<<<"1","%"," ","t","o"," ","3","%">>, <<"1","%","-","3","%">>>>,
      <<<<"0",".","5","0","%"," ","t","o"," ","3",".","0","0","%">>, <<"0",".","5","0","%","-","3",".","0","0","%">>>> }

\* C22: for every key, a percentage-range value 'A% to B%' normalizes to
\* 'A%-B%', also under a key holding a currency keyword such as
\* 'fees_and_charges.processing_fee'
PercentRangeForEveryKey ==
    Len(valHist) >= 2 =>
        \A e \in PercentRanges : val = e[1] => valHist[2] = e[2]

\* ------------------------------------------------------------------------
\* normalize_facts on a list of facts
\* ------------------------------------------------------------------------
\* the four placeholder values named by the specification
Placeholders == { <<"_","_","_">>, <<>>, <<"N",".","A",".">>, <<"a","s"," ","a","p","p","l","i","c","a","b","l","e">> }

NormKeys == { <<"f","e","e","s","_","a","n","d","_","c","h","a","r","g","e","s",".","p","r","o","c","e","s","s","i","n","g","_","f","e","e">>,
              <<"i","n","t","e","r","e","s","t","_","r","a","t","e","s",".","m","a","r","g","i","n">>,
              <<"r","e","p","a","y","m","e","n","t",".","e","m","i","_","a","m","o","u","n","t">>,
              <<"r","e","p","a","y","m","e","n","t",".","e","m","i","_","c","u","r","r","e","n","c","y">>,
              <<"g","r","i","e","v","a","n","c","e",".","p","r","o","c","e","s","s">> }

NormValues == Placeholders \cup { <<"5">>, <<"₹","4",",","5","0","0">> }

\* the i-th fact of an input list; its source_text names its position
MkFact(k, v, i) ==
    [key |-> k, value |-> v, confidence |-> 75, source_page |-> None,
     source_text |-> <<"snippet", i>>, coordinates |-> None,
     source_reference |-> <<"document", i>>, effective_date |-> None]

RECURSIVE FactLists(_)
FactLists(n) ==
    IF n = 0 THEN { <<>> }
    ELSE { Append(r, MkFact(k, v, n)) :
             r \in FactLists(n - 1), k \in NormKeys, v \in NormValues }

InitNorm ==
    /\ \E n \in 0..MaxFacts : inFacts \in FactLists(n)
    /\ outFacts = <<>>
    /\ nfDone = FALSE
    /\ KeyIdle /\ ValIdle /\ SmartIdle /\ ConflictIdle /\ RuleIdle /\ DocIdle

NormalizeFacts ==
    /\ ~nfDone
    /\ outFacts' = normalize_facts(inFacts)
    /\ inFacts' = input_after_normalize(inFacts)
    /\ nfDone' = TRUE
    /\ UNCHANGED docVars
    /\ UNCHANGED <<keyVars, valVars, smartVars, conflictVars, ruleVars>>

NextNorm == NormalizeFacts

SpecNorm == InitNorm /\ [][NextNorm]_vars

\* C3: no fact returned by normalize_facts has a placeholder value: the
\* output has no fact whose trimmed value matches a bad-value pattern, and an
\* input fact whose value is "___", "", "N.A." or "as applicable" has no
\* counterpart in the output, under every key
NoPlaceholderInOutput ==
    nfDone =>
        /\ \A j \in 1..Len(outFacts) :
              /\ ~looks_bad(outFacts[j].value)
              /\ Lower(Strip(outFacts[j].value)) \notin {Lower(ph) : ph \in Placeholders}
        /\ \A i \in 1..Len(inFacts) :
              inFacts[i].value \in Placeholders
                => \A j \in 1..Len(outFacts) : outFacts[j].source_text # inFacts[i].source_text

\* a placeholder fact next to a usable one: only the usable one comes out
NoPlaceholderWitness ==
    /\ nfDone
    /\ Len(inFacts) = 2
    /\ inFacts[1].value = <<"N",".","A",".">>
    /\ inFacts[2].value = <<"₹","4",",","5","0","0">>
    /\ Len(outFacts) = 1
    /\ outFacts[1].source_text = inFacts[2].source_text

\* the input fact an output fact was made from: each input fact of a list
\* has its own source_text
MadeFrom(out, in) == out.source_text = in.source_text

\* C26: normalization changes only key and value: the fact produced for an
\* input fact has the input fact's confidence, source_text, source_reference
\* and effective_date
EvidenceSurvivesNormalization ==
    nfDone =>
        \A j \in 1..Len(outFacts) : \E i \in 1..Len(inFacts) :
            /\ MadeFrom(outFacts[j], inFacts[i])
            /\ outFacts[j].confidence = inFacts[i].confidence
            /\ inFacts[i].source_reference = outFacts[j].source_reference
            /\ inFacts[i].effective_date = outFacts[j].effective_date

\* ------------------------------------------------------------------------
\* extract_facts_smart
\* ------------------------------------------------------------------------
\* keys of the rule catalog, in the order the extractor visits them, each with
\* values its patterns can capture
RulePool == <<
    [key |-> <<"f","e","e","s","_","a","n","d","_","c","h","a","r","g","e","s",".","p","r","o","c","e","s","s","i","n","g","_","f","e","e">>, values |-> { <<"1",".","5","0","%">> }],
    [key |-> <<"f","e","e","s","_","a","n","d","_","c","h","a","r","g","e","s",".","a","d","m","i","n","i","s","t","r","a","t","i","v","e","_","f","e","e">>, values |-> { <<"_","_","_">> }],
    [key |-> <<"p","r","e","p","a","y","m","e","n","t","_","a","n","d","_","f","o","r","e","c","l","o","s","u","r","e",".","p","r","e","p","a","y","m","e","n","t","_","p","e","n","a","l","t","y">>, values |-> { <<"2","%">> }],
    [key |-> <<"p","r","e","p","a","y","m","e","n","t","_","a","n","d","_","f","o","r","e","c","l","o","s","u","r","e",".","f","o","r","e","c","l","o","s","u","r","e","_","c","h","a","r","g","e","s">>, values |-> { <<"4","%">> }],
    [key |-> <<"r","e","p","a","y","m","e","n","t",".","e","m","i","_","a","m","o","u","n","t">>, values |-> { <<"E","M","I",":"," ","R","s","."," ","2","5",",","0","0","0">> }],
    [key |-> <<"p","r","e","p","a","y","m","e","n","t","_","a","n","d","_","f","o","r","e","c","l","o","s","u","r","e",".","l","o","c","k","_","i","n","_","p","e","r","i","o","d">>,
     values |-> { <<"l","o","c","k","-","i","n"," ","p","e","r","i","o","d",":"," ","6"," ","m","o","n","t","h","s"," ","f","o","r"," ","n","o","n","-","i","n","d","i","v","i","d","u","a","l"," ","b","o","r","r","o","w","e","r","s">> }] >>

RuleFact(k, v, i) ==
    [key |-> k, value |-> v, confidence |-> 75, source_page |-> None,
     source_text |-> <<"snippet", i>>, coordinates |-> None,
     source_reference |-> <<"document", i>>, effective_date |-> None]

\* the lists extract can return over the pool: one fact per matched key, in
\* catalog order
RECURSIVE RuleOutputsFrom(_, _)
RuleOutputsFrom(n, room) ==
    IF n > Len(RulePool) THEN { <<>> }
    ELSE RuleOutputsFrom(n + 1, room) \cup
         (IF room = 0 THEN {}
          ELSE { <<RuleFact(RulePool[n].key, v, n)>> \o r :
                   v \in RulePool[n].values, r \in RuleOutputsFrom(n + 1, room - 1) })

RuleOutputs == RuleOutputsFrom(1, MaxRuleFacts)

\* items of the JSON array a collaborator can answer with
ReplyItems == {
    [dict |-> TRUE, section |-> <<"f","e","e","s","_","a","n","d","_","c","h","a","r","g","e","s">>, field |-> <<"v","a","l","u","a","t","i","o","n","_","c","h","a","r","g","e","s">>,
     value |-> <<"₹","2",",","0","0","0">>, confidence |-> 90, source_text |-> <<"reply", 1>>],
    [dict |-> TRUE, section |-> <<"F","e","e","s"," ","&"," ","C","h","a","r","g","e","s">>, field |-> <<"v","a","l","u","a","t","i","o","n","_","c","h","a","r","g","e","s">>,
     value |-> <<"₹","2",",","0","0","0">>, confidence |-> 90, source_text |-> <<"reply", 2>>],
    [dict |-> TRUE, section |-> <<"g","r","i","e","v","a","n","c","e">>, field |-> <<"c","o","m","p","l","a","i","n","t","_","p","r","o","c","e","d","u","r","e",".","e","m","a","i","l">>,
     value |-> <<"h","e","l","p","@","b","a","n","k",".","i","n">>, confidence |-> 90, source_text |-> <<"reply", 3>>],
    [dict |-> TRUE, section |-> <<"f","e","e","s","_","a","n","d","_","c","h","a","r","g","e","s">>, field |-> <<"p","r","o","c","e","s","s","i","n","g","_","f","e","e">>,
     value |-> <<"2","%">>, confidence |-> 90, source_text |-> <<"reply", 4>>],
    [dict |-> TRUE, section |-> <<"r","e","p","a","y","m","e","n","t">>, field |-> <<"t","e","n","u","r","e">>,
     value |-> <<"2","0"," ","y","e","a","r","s">>, confidence |-> 150, source_text |-> <<"reply", 5>>] }

\* the ways a call of the collaborator can end
Outcomes ==
    { [kind |-> k] : k \in { "raise", "api_error", "empty", "non_loan", "no_array",
                             "bad_json_short", "bad_json_long" } }
    \cup { [kind |-> "items", items |-> its] :
             its \in UNION { SeqsOfLen(ReplyItems, n) : n \in 0..MaxReply } }

InitSmart ==
    /\ pc = "phase1"
    /\ llm_service \in BOOLEAN
    /\ rule_facts = <<>> /\ gaps = <<>> /\ llm_outcome = NoOutcome
    /\ llm_facts = <<>> /\ all_facts = <<>> /\ result = <<>>
    /\ llmCalls = 0 /\ trace = <<>>
    /\ KeyIdle /\ ValIdle /\ NormIdle /\ ConflictIdle /\ RuleIdle /\ DocIdle

\* lines 87-90
RuleExtraction ==
    /\ pc = "phase1"
    /\ rule_facts' \in RuleOutputs
    /\ pc' = "phase2"
    /\ trace' = Append(trace, "rules")
    /\ UNCHANGED docVars
    /\ UNCHANGED <<llm_service, gaps, llm_outcome, llm_facts, all_facts, result, llmCalls,
                   keyVars, valVars, normVars, conflictVars, ruleVars>>

\* lines 92-98
GapAnalysis ==
    /\ pc = "phase2"
    /\ gaps' = analyze_gaps(rule_facts)
    /\ pc' = "phase3"
    /\ trace' = Append(trace, "gaps")
    /\ UNCHANGED docVars
    /\ UNCHANGED <<llm_service, rule_facts, llm_outcome, llm_facts, all_facts, result,
                   llmCalls, keyVars, valVars, normVars, conflictVars, ruleVars>>

\* lines 101-102, the test fails; or lines 156-158, there is nothing to ask
SkipCollaborator ==
    /\ pc = "phase3"
    /\ ~(llm_service /\ gaps # <<>>) \/ ~HasFocusedPrompt(gaps)
    /\ llm_facts' = <<>>
    /\ pc' = "phase4"
    /\ UNCHANGED docVars
    /\ UNCHANGED <<llm_service, rule_facts, gaps, llm_outcome, all_facts, result, llmCalls,
                   trace, keyVars, valVars, normVars, conflictVars, ruleVars>>

\* lines 102-104 and 156-165: the request is sent
CallCollaborator ==
    /\ pc = "phase3"
    /\ llm_service /\ gaps # <<>>
    /\ HasFocusedPrompt(gaps)
    /\ llmCalls' = llmCalls + 1
    /\ pc' = "awaiting"
    /\ trace' = Append(trace, "collaborator")
    /\ UNCHANGED docVars
    /\ UNCHANGED <<llm_service, rule_facts, gaps, llm_outcome, llm_facts, all_facts, result,
                   keyVars, valVars, normVars, conflictVars, ruleVars>>

\* lines 165-182: the call ends, its facts are filtered
CollaboratorReturns ==
    /\ pc = "awaiting"
    /\ \E outcome \in Outcomes :
          LET r == extract_missing_with_llm(outcome, gaps)
          IN  /\ llm_outcome' = outcome
              /\ llm_facts' = r.facts
              /\ pc' = IF r.raised THEN "raised" ELSE "phase4"
    /\ UNCHANGED docVars
    /\ UNCHANGED <<llm_service, rule_facts, gaps, all_facts, result, llmCalls, trace,
                   keyVars, valVars, normVars, conflictVars, ruleVars>>

\* line 109
Merge ==
    /\ pc = "phase4"
    /\ all_facts' = Combine(rule_facts, llm_facts)
    /\ pc' = "normalize"
    /\ trace' = Append(trace, "merge")
    /\ UNCHANGED docVars
    /\ UNCHANGED <<llm_service, rule_facts, gaps, llm_outcome, llm_facts, result, llmCalls,
                   keyVars, valVars, normVars, conflictVars, ruleVars>>

\* lines 111-117
NormalizeAll ==
    /\ pc = "normalize"
    /\ result' = normalize_facts(all_facts)
    /\ pc' = "done"
    /\ trace' = Append(trace, "normalize")
    /\ UNCHANGED docVars
    /\ UNCHANGED <<llm_service, rule_facts, gaps, llm_outcome, llm_facts, all_facts,
                   llmCalls, keyVars, valVars, normVars, conflictVars, ruleVars>>

NextSmart ==
    \/ RuleExtraction
    \/ GapAnalysis
    \/ SkipCollaborator
    \/ CallCollaborator
    \/ CollaboratorReturns
    \/ Merge
    \/ NormalizeAll

SpecSmart == InitSmart /\ [][NextSmart]_vars

\* the terms of a checklist entry for which no rule fact has key section.term
ExpectedMissing(entry) ==
    SelectSeq(entry.terms,
              LAMBDA term : \A i \in 1..Len(rule_facts) :
                               rule_facts[i].key # entry.section \o <<".">> \o term)

GapAnalysed == pc \notin {"idle", "phase1", "phase2"}

\* C6: the gaps map holds, for each checklist section in checklist order,
\* exactly the checklist terms (in checklist order) that no rule fact is keyed
\* by; a section with no missing term has no entry, and nothing outside the
\* checklist appears. With processing_fee found and administrative_fee not,
\* fees_and_charges lists administrative_fee and not processing_fee
GapsAreExactlyMissingTerms ==
    GapAnalysed =>
        /\ \A n \in 1..Len(HIGH_VALUE_TERMS) :
              LET e == ExpectedMissing(HIGH_VALUE_TERMS[n])
                  at == { i \in 1..Len(gaps) : gaps[i].section = HIGH_VALUE_TERMS[n].section }
              IN  /\ Cardinality(at) = IF e = <<>> THEN 0 ELSE 1
                  /\ \A i \in at : gaps[i].missing = e
        /\ \A i \in 1..Len(gaps) :
              \E n \in 1..Len(HIGH_VALUE_TERMS) : gaps[i].section = HIGH_VALUE_TERMS[n].section
        /\ \A i, j \in 1..Len(gaps) :
              i < j => \E n, m \in 1..Len(HIGH_VALUE_TERMS) :
                          /\ n < m
                          /\ gaps[i].section = HIGH_VALUE_TERMS[n].section
                          /\ gaps[j].section = HIGH_VALUE_TERMS[m].section
        /\ ((\E i \in 1..Len(rule_facts) :
                 rule_facts[i].key = <<"f","e","e","s","_","a","n","d","_","c","h","a","r","g","e","s",".","p","r","o","c","e","s","s","i","n","g","_","f","e","e">>)
            /\ (\A i \in 1..Len(rule_facts) :
                 rule_facts[i].key # <<"f","e","e","s","_","a","n","d","_","c","h","a","r","g","e","s",".","a","d","m","i","n","i","s","t","r","a","t","i","v","e","_","f","e","e">>))
              => /\ gaps[1].section = <<"f","e","e","s","_","a","n","d","_","c","h","a","r","g","e","s">>
                 /\ gaps[1].missing[1] = <<"a","d","m","i","n","i","s","t","r","a","t","i","v","e","_","f","e","e">>
                 /\ \A j \in 1..Len(gaps[1].missing) : gaps[1].missing[j] # <<"p","r","o","c","e","s","s","i","n","g","_","f","e","e">>

\* the rules found the processing fee and the prepayment penalty only
GapsWitness ==
    /\ GapAnalysed
    /\ Len(rule_facts) = 2
    /\ rule_facts[1].key = <<"f","e","e","s","_","a","n","d","_","c","h","a","r","g","e","s",".","p","r","o","c","e","s","s","i","n","g","_","f","e","e">>
    /\ rule_facts[2].key = <<"p","r","e","p","a","y","m","e","n","t","_","a","n","d","_","f","o","r","e","c","l","o","s","u","r","e",".","p","r","e","p","a","y","m","e","n","t","_","p","e","n","a","l","t","y">>
    /\ Len(gaps) = 5
    /\ gaps[1].missing = << <<"a","d","m","i","n","i","s","t","r","a","t","i","v","e","_","f","e","e">>, <<"l","e","g","a","l","_","c","h","a","r","g","e","s">>, <<"v","a","l","u","a","t","i","o","n","_","c","h","a","r","g","e","s">> >>
    /\ gaps[2].missing = << <<"f","o","r","e","c","l","o","s","u","r","e","_","c","h","a","r","g","e","s">>, <<"l","o","c","k","_","i","n","_","p","e","r","i","o","d">> >>

CollaboratorAnswered == pc \in {"phase4", "normalize", "done"} /\ llmCalls = 1

\* the key is section.term for a term requested under that section
RequestedKey(k) ==
    \E i \in 1..Len(gaps) : \E j \in 1..Len(gaps[i].missing) :
        k = gaps[i].section \o <<".">> \o gaps[i].missing[j]

\* C7: the externally-derived facts that are kept are exactly the facts the
\* collaborator returned whose key is section.term for a requested term, in
\* the order returned; a fact under any other key (extra dotted parts, an
\* un-normalized section name, a term not requested) is discarded
KeptExactlyRequested ==
    (CollaboratorAnswered /\ llm_outcome.kind # "raise") =>
        llm_facts = SelectSeq(extract_facts_with_prompt(llm_outcome),
                              LAMBDA fact : RequestedKey(fact.key))

\* the collaborator is absent, raised, or answered with nothing or with
\* something that is no list of facts
Degraded ==
    \/ ~llm_service
    \/ llm_outcome.kind \in { "raise", "api_error", "empty", "no_array",
                              "bad_json_short", "bad_json_long" }
    \/ (llm_outcome.kind = "items" /\ llm_outcome.items = <<>>)

IsPrefix(a, b) == Len(a) <= Len(b) /\ SubSeq(b, 1, Len(a)) = a

FromRules(fact) == fact.source_text[1] = "snippet"
FromCollaborator(fact) == fact.source_text[1] = "reply"

\* C9: the phases run in the order rule extraction, gap analysis, optional
\* collaborator call, merge, normalization; the collaborator is called at
\* most once, only after gap analysis and never with an empty gap map; in the
\* result every rule fact precedes every externally-derived fact
PhasesInOrder ==
    /\ \/ IsPrefix(trace, <<"rules", "gaps", "collaborator", "merge", "normalize">>)
       \/ IsPrefix(trace, <<"rules", "gaps", "merge", "normalize">>)
    /\ llmCalls <= 1
    /\ llmCalls = 1 => (gaps # <<>> /\ IsPrefix(<<"rules", "gaps", "collaborator">>, trace))
    /\ pc = "done" =>
          /\ trace[Len(trace)] = "normalize"
          /\ \A i, j \in 1..Len(result) :
                (FromCollaborator(result[i]) /\ FromRules(result[j])) => j < i

\* a run in which a rule fact and an externally-derived fact both come out
PhasesWitness ==
    /\ pc = "done"
    /\ llmCalls = 1
    /\ Len(result) = 2
    /\ FromRules(result[1])
    /\ FromCollaborator(result[2])

\* the final output holds a fact for section.term: a fact under the key that
\* normalization gives section.term
InFinalOutput(section, term) ==
    \E j \in 1..Len(result) : result[j].key = normalize_key(section \o <<".">> \o term)

\* C27: with a collaborator available, a high-value checklist term is left
\* out of the gap request only if the final normalized output holds a fact
\* for that term: no checklist term is both unrequested and absent from the
\* output, also when the rule extractor matched only a template placeholder
\* such as '___' for it
UnrequestedTermsInOutput ==
    (pc = "done" /\ llm_service) =>
        \A n \in 1..Len(HIGH_VALUE_TERMS) : \A t \in 1..Len(HIGH_VALUE_TERMS[n].terms) :
            ~Requested(gaps, HIGH_VALUE_TERMS[n].section, HIGH_VALUE_TERMS[n].terms[t])
                => InFinalOutput(HIGH_VALUE_TERMS[n].section, HIGH_VALUE_TERMS[n].terms[t])

\* ------------------------------------------------------------------------
\* detect_conflicts on a list of facts
\* ------------------------------------------------------------------------
ConflictKeys == { <<"i","n","t","e","r","e","s","t","_","r","a","t","e","s",".","m","a","r","g","i","n">>,
                  <<"f","e","e","s","_","a","n","d","_","c","h","a","r","g","e","s",".","p","r","o","c","e","s","s","i","n","g","_","f","e","e">> }

ConflictValues == { <<"2","%">>, <<"2",".","5","%">>, <<"2",".","1","%">>, <<"u","p"," ","t","o"," ","5","%">>, <<"m","i","n","i","m","u","m"," ","1","0","%">>,
                    <<"1","0","%"," ","-"," ","1","5","%">>, <<"M","o","n","t","h","l","y">> }

\* confidences in hundredths
ConflictConfidences == { 50, 80 }

CFact(k, v, c, i) ==
    [key |-> k, value |-> v, confidence |-> c, source_page |-> None,
     source_text |-> <<"snippet", i>>, coordinates |-> None,
     source_reference |-> None, effective_date |-> None]

RECURSIVE ConflictLists(_)
ConflictLists(n) ==
    IF n = 0 THEN { <<>> }
    ELSE { Append(r, CFact(k, v, c, n)) :
             r \in ConflictLists(n - 1), k \in ConflictKeys, v \in ConflictValues,
             c \in ConflictConfidences }

InitConflict ==
    /\ \E n \in 0..MaxConflictFacts : cfFacts \in ConflictLists(n)
    /\ conflicts = <<>>
    /\ cfDone = FALSE
    /\ KeyIdle /\ ValIdle /\ NormIdle /\ SmartIdle /\ RuleIdle /\ DocIdle

DetectConflicts ==
    /\ ~cfDone
    /\ conflicts' = detect_conflicts(cfFacts)
    /\ cfDone' = TRUE
    /\ UNCHANGED docVars
    /\ UNCHANGED <<cfFacts, keyVars, valVars, normVars, smartVars, ruleVars>>

NextConflict == DetectConflicts

SpecConflict == InitConflict /\ [][NextConflict]_vars

\* the two margin facts of the example: '2%' and '2.5%', both with
\* confidence 0.8
MarginExample ==
    /\ cfDone
    /\ Len(cfFacts) = 2
    /\ \A i \in 1..2 : cfFacts[i].key = <<"i","n","t","e","r","e","s","t","_","r","a","t","e","s",".","m","a","r","g","i","n">> /\ cfFacts[i].confidence = 80
    /\ cfFacts[1].value = <<"2","%">>
    /\ cfFacts[2].value = <<"2",".","5","%">>

\* C10 as stated: for the margin facts '2%' and '2.5%', both at confidence
\* 0.8, detect_conflicts returns no record of severity 'high'
MarginNoHighConflict ==
    MarginExample => \A i \in 1..Len(conflicts) : conflicts[i].severity # "high"

\* C10 as the code has it: for the margin facts '2%' and '2.5%', both at
\* confidence 0.8, detect_conflicts returns exactly one record, a
\* value_contradiction on interest_rates.margin of severity 'high' that names
\* the two values
MarginHighConflict ==
    MarginExample =>
        /\ Len(conflicts) = 1
        /\ conflicts[1].type = "value_contradiction"
        /\ conflicts[1].key = <<"i","n","t","e","r","e","s","t","_","r","a","t","e","s",".","m","a","r","g","i","n">>
        /\ conflicts[1].conflicting_values = << <<"2","%">>, <<"2",".","5","%">> >>
        /\ conflicts[1].severity = "high"

MarginWitness == MarginExample /\ Len(conflicts) = 1

\* ------------------------------------------------------------------------
\* detect_conflicts on two facts
\* ------------------------------------------------------------------------
Margin == <<"i","n","t","e","r","e","s","t","_","r","a","t","e","s",".","m","a","r","g","i","n">>
Spread == <<"i","n","t","e","r","e","s","t","_","r","a","t","e","s",".","s","p","r","e","a","d">>
UpToFive == <<"u","p"," ","t","o"," ","5","%">>
MinimumTen == <<"m","i","n","i","m","u","m"," ","1","0","%">>

\* two keys of the interest_rate category, ranges and bounds as values
RangePairKeys == { Margin, Spread }
RangePairValues == { UpToFive, MinimumTen, <<"1","%"," ","-"," ","2","%">>, <<"1","0","%"," ","-"," ","1","5","%">>, <<"1","2","%"," ","-"," ","2","0","%">>, <<"1","4","%"," ","-"," ","2","0","%">>,
                     <<"5"," ","-"," ","5">>, <<"6"," ","-"," ","6">>, <<"1","0"," ","-"," ","2","0">>, <<"1","7"," ","-"," ","2","7">> }
RangePairs ==
    { <<CFact(k1, v1, 80, 1), CFact(k2, v2, 80, 2)>> :
        k1 \in RangePairKeys, k2 \in RangePairKeys,
        v1 \in RangePairValues, v2 \in RangePairValues }

\* one key, numbers as values: negative, zero, and pairs 10% apart
NumericPairValues == { <<"-","5">>, <<"-","1","0","0">>, <<"0">>, <<"5">>, <<"1","0","0">>, <<"9","0">>, <<"8","9">>, <<"7">>, <<"6",".","3">>, <<"1",".","1">>, <<"0",".","9","9">>,
                       <<"2","%">>, <<"2",".","5","%">> }
NumericPairs ==
    { <<CFact(Margin, v1, 80, 1), CFact(Margin, v2, 80, 2)>> :
        v1 \in NumericPairValues, v2 \in NumericPairValues }

\* one key, two conflicting values, confidences up to 0.5 apart
SeverityPairConfidences == { 30, 50, 70, 80, 100 }
SeverityPairs ==
    { <<CFact(Margin, v[1], c1, 1), CFact(Margin, v[2], c2, 2)>> :
        v \in { <<<<"2","%">>, <<"2",".","5","%">>>>, <<UpToFive, MinimumTen>> },
        c1 \in SeverityPairConfidences, c2 \in SeverityPairConfidences }

InitPair ==
    /\ cfFacts \in RangePairs \cup NumericPairs \cup SeverityPairs
    /\ conflicts = <<>>
    /\ cfDone = FALSE
    /\ KeyIdle /\ ValIdle /\ NormIdle /\ SmartIdle /\ RuleIdle /\ DocIdle

SpecPair == InitPair /\ [][NextConflict]_vars

RangeRecords == SelectSeq(conflicts, LAMBDA r : r.type = "overlapping_ranges")
ValueRecords == SelectSeq(conflicts, LAMBDA r : r.type = "value_contradiction")

\* the key contains the category keyword 'interest_rate' and no other one
OnlyInterestRate(k) ==
    \A n \in 1..Len(range_keywords) :
        Contains(Lower(k), range_keywords[n]) <=> range_keywords[n] = <<"i","n","t","e","r","e","s","t","_","r","a","t","e">>

\* an 'up to 5%' fact and a 'minimum 10%' fact, in either order, under
\* keys of the interest_rate category only
BoundsExample ==
    /\ cfDone
    /\ Len(cfFacts) = 2
    /\ <<cfFacts[1].value, cfFacts[2].value>> \in { <<UpToFive, MinimumTen>>, <<MinimumTen, UpToFive>> }
    /\ \A i \in 1..2 : OnlyInterestRate(cfFacts[i].key)

\* C11: detect_conflicts on an 'up to 5%' fact and a 'minimum 10%' fact whose
\* keys contain the category keyword 'interest_rate' and no other returns
\* exactly one overlapping_ranges record, of category 'interest_rate' and
\* severity 'high', whichever fact comes first; under two different keys it
\* is the only record returned
BoundsGiveOneRangeConflict ==
    BoundsExample =>
        /\ Len(RangeRecords) = 1
        /\ RangeRecords[1].category = <<"i","n","t","e","r","e","s","t","_","r","a","t","e">>
        /\ RangeRecords[1].severity = "high"
        /\ cfFacts[1].key # cfFacts[2].key => Len(conflicts) = 1

\* the lower bound comes first, under two different keys
BoundsWitness ==
    /\ BoundsExample
    /\ cfFacts[1].value = MinimumTen
    /\ cfFacts[1].key = Spread
    /\ cfFacts[2].key = Margin
    /\ Len(conflicts) = 1
    /\ conflicts[1].type = "overlapping_ranges"

\* two facts under one key whose values both parse as numbers
NumericPair ==
    /\ cfDone
    /\ Len(cfFacts) = 2
    /\ cfFacts[1].key = cfFacts[2].key
    /\ ParseSigned(NumericChars(cfFacts[1].value)).ok
    /\ ParseSigned(NumericChars(cfFacts[2].value)).ok

\* the numbers a and b differ by more than 10% of the larger magnitude
MoreThanTenthOfLargerMagnitude(a, b, d) ==
    Abs(Scaled(a, d) - Scaled(b, d)) * 10 > MaxOf(Abs(Scaled(a, d)), Abs(Scaled(b, d)))

\* C18: two same-key facts whose values both parse as numbers are reported
\* as a value_contradiction if and only if the two numbers differ by more
\* than 10% of the larger magnitude; a difference of exactly 10% is not a
\* conflict, and the rule applies equally to zero and negative numbers
TenthOfLargerMagnitudeRule ==
    NumericPair =>
        (ValueRecords # <<>> <=>
            MoreThanTenthOfLargerMagnitude(
                ParseSigned(NumericChars(cfFacts[1].value)),
                ParseSigned(NumericChars(cfFacts[2].value)),
                MaxOf(ParseSigned(NumericChars(cfFacts[1].value)).den,
                      ParseSigned(NumericChars(cfFacts[2].value)).den)))

\* C19: every value_contradiction record has severity 'high' when the
\* confidence scores of its two facts differ by less than 0.2 and 'medium'
\* otherwise, a difference of exactly 0.2 included; every overlapping_ranges
\* record has severity 'high'
SeverityByConfidenceGap ==
    /\ \A n \in 1..Len(ValueRecords) :
        ValueRecords[n].severity =
            IF Abs(ValueRecords[n].confidence_scores[1] - ValueRecords[n].confidence_scores[2]) < 20
            THEN "high" ELSE "medium"
    /\ \A n \in 1..Len(RangeRecords) : RangeRecords[n].severity = "high"

\* two facts of the interest_rate category whose values are full ranges
FullRangePair ==
    /\ cfDone
    /\ Len(cfFacts) = 2
    /\ \A i \in 1..2 :
        /\ OnlyInterestRate(cfFacts[i].key)
        /\ extract_range(cfFacts[i]) # <<>>
        /\ extract_range(cfFacts[i])[1].type = "range"

\* the overlap of two ranges over the denominator d (0 when they are
\* disjoint) is shorter than 30% of the mean of their lengths
OverlapLength(lo1, hi1, lo2, hi2) == MaxOf(0, MinOf(hi1, hi2) - MaxOf(lo1, lo2))
OverlapBelowThirtyPercent(r1, r2, d) ==
    20 * OverlapLength(Scaled(r1.min, d), Scaled(r1.max, d), Scaled(r2.min, d), Scaled(r2.max, d))
        < 3 * ((Scaled(r1.max, d) - Scaled(r1.min, d)) + (Scaled(r2.max, d) - Scaled(r2.min, d)))

\* C20: a pair of full ranges in the same category is reported as
\* contradictory if and only if the length of the overlap of the two ranges
\* (0 when they are disjoint) is less than 30% of the mean of the two lengths
SmallOverlapRule ==
    FullRangePair =>
        (RangeRecords # <<>> <=>
            OverlapBelowThirtyPercent(
                extract_range(cfFacts[1])[1], extract_range(cfFacts[2])[1],
                MaxOf(MaxOf(extract_range(cfFacts[1])[1].min.den, extract_range(cfFacts[1])[1].max.den),
                      MaxOf(extract_range(cfFacts[2])[1].min.den, extract_range(cfFacts[2])[1].max.den))))

\* ------------------------------------------------------------------------
\* Calls of extract and of parse_ltv_table
\* ------------------------------------------------------------------------
\* phrases the patterns of the keys covered match, a percentage followed by
\* a comma, a band with an amount, and a phrase nothing matches
RulePhrases == { <<"C","I","B","I","L"," ","s","c","o","r","e",":"," ","7","5","0">>, <<"c","r","e","d","i","t"," ","s","c","o","r","e",":"," ","7","0","0">>, <<"m","i","n","i","m","u","m"," ","s","c","o","r","e",":"," ","6","5","0">>, <<"l","o","a","n"," ","t","o"," ","v","a","l","u","e",":"," ","8","0","%">>,
                 <<"7","5"," ","%"," ","a","s"," ","L","T","V",".">>, <<"L","T","V"," ","9","0"," ","%">>, <<"r","e","s","e","t"," ","f","r","e","q","u","e","n","c","y",":"," ","m","o","n","t","h","l","y">>, <<"r","a","t","e"," ","c","h","a","n","g","e"," ","-"," ","Q","U","A","R","T","E","R","L","Y">>,
                 <<"9","0","%",","," ","s","u","b","j","e","c","t"," ","t","o">>, <<"9","0","%"," ","u","p"," ","t","o"," ","3","0"," ","L","a","k","h","s">>, <<"n","o"," ","t","e","r","m","s">> }

\* a sentence of more than 60 characters that no pattern matches
Padding == <<"T","h","e"," ","b","o","r","r","o","w","e","r"," ","s","h","a","l","l"," ","r","e","p","a","y"," ","e","v","e","r","y"," ","i","n","s","t","a","l","m","e","n","t"," ","o","n"," ","o","r"," ","b","e","f","o","r","e"," ","i","t","s"," ","d","u","e"," ","d","a","t","e",".">>

\* a phrase with more than 60 characters of other text on either side
LongTexts ==
    { Padding \o <<" ">> \o p \o <<" ">> \o Padding :
        p \in { <<"C","I","B","I","L"," ","s","c","o","r","e",":"," ","7","5","0">>, <<"L","T","V"," ","9","0"," ","%">> } }

\* the empty text, one phrase, two phrases with a space between, or a phrase
\* inside a longer text
RuleTexts ==
    { <<>> } \cup RulePhrases \cup { a \o <<" ">> \o b : a \in RulePhrases, b \in RulePhrases }
    \cup LongTexts

RuleFiles == { None, <<"a",".","p","d","f">> }

\* the text and filename of the calls made between the calls on rxText
OtherText == <<"L","T","V"," ","9","0"," ","%"," ","C","I","B","I","L"," ","s","c","o","r","e",":"," ","7","5","0">>
OtherFile == <<"b",".","p","d","f">>

InitRule ==
    /\ rxText \in RuleTexts
    /\ rxFile \in RuleFiles
    /\ rxFacts = <<>>
    /\ rxResults = <<>>
    /\ rxCalls = 0
    /\ tbl = NotCalled
    /\ KeyIdle /\ ValIdle /\ NormIdle /\ SmartIdle /\ ConflictIdle /\ DocIdle

\* extract(rxText, rxFile)
Extract ==
    /\ rxCalls < MaxCalls
    /\ rxFacts' = extract_into(facts_at_entry(rxFacts), rxText, rxFile)
    /\ rxResults' = Append(rxResults, rxFacts')
    /\ rxCalls' = rxCalls + 1
    /\ UNCHANGED docVars
    /\ UNCHANGED <<rxText, rxFile, tbl, keyVars, valVars, normVars, smartVars, conflictVars>>

\* extract(OtherText, OtherFile) on the same service object
ExtractOther ==
    /\ rxCalls < MaxCalls
    /\ rxFacts' = extract_into(facts_at_entry(rxFacts), OtherText, OtherFile)
    /\ rxCalls' = rxCalls + 1
    /\ UNCHANGED docVars
    /\ UNCHANGED <<rxText, rxFile, rxResults, tbl, keyVars, valVars, normVars, smartVars,
                   conflictVars>>

\* parse_ltv_table(rxText), called directly
ParseTable ==
    /\ tbl = NotCalled
    /\ rxCalls = 0
    /\ tbl' = [state |-> IF parse_ltv_table(rxText).raised THEN "raised" ELSE "returned",
               bands |-> parse_ltv_table(rxText).bands]
    /\ UNCHANGED docVars
    /\ UNCHANGED <<rxText, rxFile, rxFacts, rxResults, rxCalls, keyVars, valVars, normVars,
                   smartVars, conflictVars>>

NextRule ==
    \/ Extract
    \/ ExtractOther
    \/ ParseTable

SpecRule == InitRule /\ [][NextRule]_vars

TableNeverRaises ==
    tbl # NotCalled =>
        /\ tbl.state = "returned"
        /\ ~Contains(rxText, <<"%">>) => tbl.bands = <<>>

\* C15: every fact returned by extract has confidence exactly 0.75 (75
\* hundredths), the fact emitted for parsed LTV bands included
AllFactsThreeQuarters ==
    \A r \in 1..Len(rxResults) : \A i \in 1..Len(rxResults[r]) :
        rxResults[r][i].confidence = 75

\* the positions of the facts of a result that carry catalog key k
FactsOfKey(res, k) == { i \in 1..Len(res) : res[i].key = PATTERNS[k].key }

\* the patterns of catalog key k that match somewhere in the text
MatchingPatterns(k, text) ==
    { n \in 1..PATTERNS[k].patterns : PatternSearch(k, n, text, Lower(text)).ok }

LowestIndex(S) == CHOOSE n \in S : \A m \in S : n <= m

OneFactFromFirstPattern(res, k, text, filename, matching) ==
    IF matching = {} THEN FactsOfKey(res, k) = {}
    ELSE /\ Cardinality(FactsOfKey(res, k)) = 1
         /\ \A i \in FactsOfKey(res, k) :
                res[i] = pattern_fact(k, PatternSearch(k, LowestIndex(matching), text, Lower(text)),
                                      text, filename)

\* C17: for every catalog key, extract returns at most one fact with that
\* key; a returned fact is built from the lowest-index pattern of the key's
\* list that matches anywhere in the text, and when no pattern of the key
\* matches no fact with that key is returned
FirstPatternWins ==
    \A r \in 1..Len(rxResults) : \A k \in 1..Len(PATTERNS) :
        OneFactFromFirstPattern(rxResults[r], k, rxText, rxFile, MatchingPatterns(k, rxText))

\* the third pattern of cibil_score matches at the start of the text and the
\* first one further on: the one fact returned is the first pattern's, and
\* the keys without a matching pattern have no fact
FirstPatternWitness ==
    /\ rxText = <<"m","i","n","i","m","u","m"," ","s","c","o","r","e",":"," ","6","5","0"," ","C","I","B","I","L"," ","s","c","o","r","e",":"," ","7","5","0">>
    /\ MatchingPatterns(2, rxText) = {1, 3}
    /\ PatternSearch(2, 3, rxText, Lower(rxText)).start < PatternSearch(2, 1, rxText, Lower(rxText)).start
    /\ Len(rxResults) >= 1
    /\ Len(rxResults[1]) = 1
    /\ rxResults[1][1].key = PATTERNS[2].key
    /\ rxResults[1][1].value = <<"7","5","0">>

\* text[max(start - 60, 0) : min(end + 60, len(text))] and
\* '<filename>:~<start>-<end>' for a span [start, end) counted from 0
SnippetOf(text, start, end) ==
    SubSeq(text, MaxOf(start - 60, 0) + 1, MinOf(end + 60, Len(text)))
ReferenceOf(filename, start, end) ==
    NameOf(filename) \o <<":","~">> \o IntToStr(start) \o <<"-">> \o IntToStr(end)

\* the spans of the matches extract works from: the match of each catalog
\* pattern and the rows of the LTV table, counted from 0
PatternSpans(text) ==
    { <<PatternSearch(k, n, text, Lower(text)).start - 1, PatternSearch(k, n, text, Lower(text)).end - 1>> :
        <<k, n>> \in { kn \in (1..Len(PATTERNS)) \X (1..3) :
                        /\ kn[2] <= PATTERNS[kn[1]].patterns
                        /\ PatternSearch(kn[1], kn[2], text, Lower(text)).ok } }
RowSpans(rows) == { <<rows[n].start - 1, rows[n].end - 1>> : n \in 1..Len(rows) }
MatchSpans(text) == PatternSpans(text) \cup RowSpans(LtvRowsFrom(text, Lower(text), 1))

CarriesSpan(fact, text, filename, spans) ==
    \E sp \in spans :
        /\ fact.source_text = SnippetOf(text, sp[1], sp[2])
        /\ fact.source_reference = ReferenceOf(filename, sp[1], sp[2])

\* C25: every fact returned by extract carries a source_text equal to
\* text[max(start-60, 0) : min(end+60, len(text))] for the span [start, end)
\* of the match that produced it, and a source_reference equal to
\* '<filename>:~<start>-<end>', with 'document' for a missing filename
EvidenceFromMatchSpan ==
    \A r \in 1..Len(rxResults) : \A i \in 1..Len(rxResults[r]) :
        CarriesSpan(rxResults[r][i], rxText, rxFile, MatchSpans(rxText))

\* ------------------------------------------------------------------------
\* normalize_facts and detect_conflicts on one list of facts
\* ------------------------------------------------------------------------
FrameKeys == { Margin, <<"F","e","e","s"," ","&"," ","C","h","a","r","g","e","s",".","A","d","m","i","n"," ","F","e","e">> }
FrameValues == { <<"2","%">>, <<"2",".","5"," ","p","e","r","c","e","n","t">>, UpToFive, MinimumTen, <<"N",".","A",".">> }

RECURSIVE FrameLists(_)
FrameLists(n) ==
    IF n = 0 THEN { <<>> }
    ELSE { Append(r, CFact(k, v, 80, n)) :
             r \in FrameLists(n - 1), k \in FrameKeys, v \in FrameValues }

\* the caller hands the same list to both operations
InitFrame ==
    /\ \E n \in 0..MaxFacts : inFacts \in FrameLists(n)
    /\ cfFacts = inFacts
    /\ outFacts = <<>> /\ nfDone = FALSE
    /\ conflicts = <<>> /\ cfDone = FALSE
    /\ KeyIdle /\ ValIdle /\ SmartIdle /\ RuleIdle /\ DocIdle

NextFrame ==
    \/ NormalizeFacts
    \/ DetectConflicts

SpecFrame == InitFrame /\ [][NextFrame]_vars

EmiKeys == { <<"r","e","p","a","y","m","e","n","t",".","e","m","i","_","a","m","o","u","n","t">>, <<"L","o","a","n",".","E","M","I","_","A","m","o","u","n","t","_","M","o","n","t","h","l","y">> }
EmiValues == { <<"0">>, <<"R","s"," ","0">>, <<"0",".","0","0">>, <<"R","s"," ","0",".","5">>, <<"5">>, <<"9","9">>, <<"9","9",".","9","9">>, <<"₹","5","0">>,
               <<"1","0","0">>, <<"R","s"," ","2","5","0">>, <<"7","5","0">>, <<"₹","1",",","0","0","0",".","5","0">> }

RECURSIVE EmiLists(_)
EmiLists(n) ==
    IF n = 0 THEN { <<>> }
    ELSE { Append(r, MkFact(k, v, n)) : r \in EmiLists(n - 1), k \in EmiKeys, v \in EmiValues }

InitEmi ==
    /\ \E n \in 0..MaxFacts : inFacts \in EmiLists(n)
    /\ outFacts = <<>>
    /\ nfDone = FALSE
    /\ KeyIdle /\ ValIdle /\ SmartIdle /\ ConflictIdle /\ RuleIdle /\ DocIdle

NextEmi == NormalizeFacts

SpecEmi == InitEmi /\ [][NextEmi]_vars

\* the first number of the value, after currency normalization when the
\* value holds a currency marker, is below 100
EmiBelowHundred(n) == n # <<>> /\ ParseDecimal(n).num < 100 * ParseDecimal(n).den
EmiHundredOrMore(n) == n # <<>> /\ ParseDecimal(n).num >= 100 * ParseDecimal(n).den

InOutput(fact) == \E j \in 1..Len(outFacts) : outFacts[j].source_text = fact.source_text

EmiFactRule(fact, n) ==
    /\ EmiBelowHundred(n) => (normalize_value(fact.value, fact.key) = <<>> /\ ~InOutput(fact))
    /\ EmiHundredOrMore(n) => InOutput(fact)

\* C23: for every key containing 'emi_amount', if the first number found in
\* the (currency-normalized) value is below 100, 0 included, normalize_value
\* returns the empty string and normalize_facts omits the fact; if that
\* number is 100 or more the fact is kept
SmallEmiDropped ==
    nfDone =>
        \A i \in 1..Len(inFacts) :
            Contains(Lower(inFacts[i].key), <<"e","m","i","_","a","m","o","u","n","t">>) =>
                EmiFactRule(inFacts[i], FirstNumber(RemoveCommas(EmiValue(Strip(inFacts[i].value)))))

\* ------------------------------------------------------------------------
\* batch_process_documents and reprocess_failed_documents
\* ------------------------------------------------------------------------
\* the longest list of ids handed to batch_process_documents
MaxIds == 4
\* enhanced_document_processor.py line 168
SemaphoreLimit == 3

\* document.py lines 16-21
PENDING == "pending"
PROCESSING == "processing"
COMPLETED == "completed"
FAILED == "failed"
ProcessingStatus == { PENDING, PROCESSING, COMPLETED, FAILED }

\* document.py lines 55-63: the fields of a Document the processor and the
\* storage read and write (a new document is PENDING and has no error)
Document(id) == [id |-> id, status |-> PENDING, error_message |-> None]

\* an id the storage holds no document for
Missing == MaxIds + 1

\* the storage is empty, or holds the documents 1..MaxIds as the ingestion
\* stored them
Storages == { [i \in 1..n |-> Document(i)] : n \in {0, MaxIds} }

\* lists of ids: position n names its own document, the first document
\* again, or a document the storage does not hold
RECURSIVE IdLists(_)
IdLists(n) ==
    IF n = 0 THEN { <<>> }
    ELSE { Append(r, d) : r \in IdLists(n - 1), d \in {n, 1, Missing} }

\* what the awaited collaborator does: it answers, or raises an exception
\* with a message (str(e) may be empty)
AnalysisOutcomes ==
    { [kind |-> "ok"], [kind |-> "raises", message |-> "structure analysis failed"] }
ExtractionOutcomes ==
    { [kind |-> "ok"], [kind |-> "raises", message |-> ""] }

\* document_storage.py lines 53-63
get_document(docs, doc_id) ==
    IF doc_id \in DOMAIN docs THEN <<docs[doc_id]>> ELSE <<>>

\* enhanced_document_processor.py lines 60-61
mark_processing(doc) == [doc EXCEPT !.status = PROCESSING]
\* lines 125-129
mark_completed(doc) == [doc EXCEPT !.status = COMPLETED]
\* the handler without its assignment of the status
keep_status(doc, message) == [doc EXCEPT !.error_message = message]
\* lines 139-143
mark_failed(doc, message) ==
    [doc EXCEPT !.status = FAILED, !.error_message = message]

\* lines 132-133
count_successful(s) ==
    [s EXCEPT !.total_processed = @ + 1, !.successful = @ + 1]
\* lines 146-147
count_failed(s) ==
    [s EXCEPT !.total_processed = @ + 1, !.failed = @ + 1]

\* lines 176 and 184
batch_successful(r) ==
    [r EXCEPT !.successful = @ + 1, !.processed = @ + 1]
\* lines 178-179, 181-182 and 184
batch_failed(r, entry) ==
    [r EXCEPT !.errors = Append(@, entry), !.failed = @ + 1, !.processed = @ + 1]

\* a semaphore that never makes a task wait
never_locked(value) == FALSE
\* asyncio.Semaphore: acquire does not wait while the value is positive
locked(value) == value = 0

InitBatch ==
    /\ documents \in Storages
    /\ stats = NewStats
    /\ \E n \in 0..MaxIds : document_ids \in IdLists(n)
    /\ batch = "idle" /\ tasks = <<>> /\ semaphore = 0 /\ results = NewResults
    /\ calls = <<>> /\ reprocessed = NotCalled
    /\ KeyIdle /\ ValIdle /\ NormIdle /\ SmartIdle /\ ConflictIdle /\ RuleIdle

\* a task whose call of process_document has not ended (or was not made)
NoCall == [outcome |-> "none"]

\* lines 160-188: the results and the semaphore are made and one task per id
\* is handed to gather
start_batch(ids) ==
    /\ document_ids' = ids
    /\ calls' = [i \in 1..Len(ids) |-> NoCall]
    /\ results' = NewResults
    /\ semaphore' = SemaphoreLimit
    /\ tasks' = [i \in 1..Len(ids) |-> "created"]
    /\ batch' = "gathering"

BatchProcessDocuments ==
    /\ batch = "idle"
    /\ start_batch(document_ids)
    /\ UNCHANGED <<documents, stats, reprocessed>>
    /\ UNCHANGED <<keyVars, valVars, normVars, smartVars, conflictVars, ruleVars>>

\* lines 171-179 and 60-61: a task enters the semaphore and asks the storage
\* for its document; without one it records the error and leaves, with one
\* process_document marks it PROCESSING, stores it and awaits the analysis
Enter(i) ==
    /\ batch = "gathering"
    /\ tasks[i] = "created"
    /\ ~locked(semaphore)
    /\ IF get_document(documents, document_ids[i]) = <<>>
       THEN /\ results' = batch_failed(results, [kind |-> "not found", id |-> document_ids[i]])
            /\ tasks' = [tasks EXCEPT ![i] = "done"]
            /\ UNCHANGED <<documents, semaphore>>
       ELSE /\ documents' = [documents EXCEPT
                                ![document_ids[i]] = mark_processing(@)]
            /\ semaphore' = semaphore - 1
            /\ tasks' = [tasks EXCEPT ![i] = "analysis"]
            /\ UNCHANGED results
    /\ UNCHANGED <<stats, document_ids, batch, calls, reprocessed>>
    /\ UNCHANGED <<keyVars, valVars, normVars, smartVars, conflictVars, ruleVars>>

\* lines 125-135 and 176, 184: process_document returns, the task counts a
\* success and leaves the semaphore
Returns(i, doc) ==
    /\ documents' = [documents EXCEPT ![doc.id] = doc]
    /\ stats' = count_successful(stats)
    /\ calls' = [calls EXCEPT ![i] =
                    [outcome |-> "returned", status |-> documents'[doc.id].status,
                     error_message |-> documents'[doc.id].error_message]]
    /\ results' = batch_successful(results)
    /\ semaphore' = semaphore + 1
    /\ tasks' = [tasks EXCEPT ![i] = "done"]

\* lines 137-149 and 180-184: a step raised; the handler stores the failure
\* and raises again, the task records the error and leaves the semaphore
Raises(i, doc, message) ==
    /\ documents' = [documents EXCEPT ![doc.id] = doc]
    /\ stats' = count_failed(stats)
    /\ calls' = [calls EXCEPT ![i] =
                    [outcome |-> "raised", status |-> documents'[doc.id].status,
                     error_message |-> documents'[doc.id].error_message]]
    /\ results' = batch_failed(results, [kind |-> "error", id |-> doc.id,
                                         message |-> message])
    /\ semaphore' = semaphore + 1
    /\ tasks' = [tasks EXCEPT ![i] = "done"]

\* lines 64-78: the awaited analyze_document_structure answers or raises
Analyze(i) ==
    /\ batch = "gathering"
    /\ tasks[i] = "analysis"
    /\ \E o \in AnalysisOutcomes :
         IF o.kind = "ok"
         THEN /\ tasks' = [tasks EXCEPT ![i] = "extraction"]
              /\ UNCHANGED <<documents, stats, calls, results, semaphore>>
         ELSE Raises(i, mark_failed(documents[document_ids[i]], o.message), o.message)
    /\ UNCHANGED <<document_ids, batch, reprocessed>>
    /\ UNCHANGED <<keyVars, valVars, normVars, smartVars, conflictVars, ruleVars>>

\* lines 80-135: the awaited extraction answers, and the document is marked
\* COMPLETED and stored, or it raises
ExtractFacts(i) ==
    /\ batch = "gathering"
    /\ tasks[i] = "extraction"
    /\ \E o \in ExtractionOutcomes :
         IF o.kind = "ok"
         THEN Returns(i, mark_completed(documents[document_ids[i]]))
         ELSE Raises(i, mark_failed(documents[document_ids[i]], o.message), o.message)
    /\ UNCHANGED <<document_ids, batch, reprocessed>>
    /\ UNCHANGED <<keyVars, valVars, normVars, smartVars, conflictVars, ruleVars>>

\* lines 188-190 and 229-232: every task has ended, gather returns and the
\* batch returns its results (to reprocess_failed_documents when it made
\* the call)
GatherReturns ==
    /\ batch = "gathering"
    /\ \A i \in 1..Len(tasks) : tasks[i] = "done"
    /\ batch' = "returned"
    /\ reprocessed' =
         IF reprocessed.state = "batching"
         THEN [state |-> "returned", processed |-> results.processed,
               failed_before |-> reprocessed.failed_before]
         ELSE reprocessed
    /\ UNCHANGED <<documents, stats, document_ids, tasks, semaphore, results, calls>>
    /\ UNCHANGED <<keyVars, valVars, normVars, smartVars, conflictVars, ruleVars>>

\* getattr on a stored document: a Document has the fields of its class only
HasAttr(doc, name) == name \in DOMAIN doc

\* document_storage.py lines 102-111: the comprehension reads
\* doc.processing_status of every stored document
get_documents_by_status(docs, status) ==
    IF \E i \in DOMAIN docs : ~HasAttr(docs[i], "processing_status")
    THEN [state |-> "raised", error |-> "AttributeError"]
    ELSE [state |-> "returned",
          value |-> SelectSeq(docs, LAMBDA d : d.processing_status = status)]

\* the stored documents whose status is the given one, in storage order
WithStatus(docs, status) == SelectSeq(docs, LAMBDA d : d.status = status)

\* lines 221-224
reset(doc) == [doc EXCEPT !.status = PENDING, !.error_message = None]

IdsOf(docs) == [i \in 1..Len(docs) |-> docs[i].id]

\* lines 209-232, up to the call of batch_process_documents
reprocess_failed_documents(failed_docs) ==
    IF failed_docs.state = "raised"
    THEN /\ reprocessed' = [state |-> "raised", error |-> failed_docs.error,
                            failed_before |-> Len(WithStatus(documents, FAILED))]
         /\ UNCHANGED <<documents, document_ids, batch, tasks, semaphore, results,
                        calls>>
    ELSE IF failed_docs.value = <<>>
    THEN /\ reprocessed' = [state |-> "returned", processed |-> 0,
                            failed_before |-> Len(WithStatus(documents, FAILED))]
         /\ UNCHANGED <<documents, document_ids, batch, tasks, semaphore, results,
                        calls>>
    ELSE /\ reprocessed' = [state |-> "batching",
                            failed_before |-> Len(WithStatus(documents, FAILED))]
         /\ documents' = [i \in DOMAIN documents |->
                            IF i \in { failed_docs.value[j].id : j \in 1..Len(failed_docs.value) }
                            THEN reset(documents[i]) ELSE documents[i]]
         /\ start_batch(IdsOf(failed_docs.value))

ReprocessFailedDocuments ==
    /\ batch = "returned"
    /\ reprocessed = NotCalled
    /\ reprocess_failed_documents(get_documents_by_status(documents, FAILED))
    /\ UNCHANGED stats
    /\ UNCHANGED <<keyVars, valVars, normVars, smartVars, conflictVars, ruleVars>>

NextBatch ==
    \/ BatchProcessDocuments
    \/ \E i \in 1..Len(tasks) : Enter(i)
    \/ \E i \in 1..Len(tasks) : Analyze(i)
    \/ \E i \in 1..Len(tasks) : ExtractFacts(i)
    \/ GatherReturns
    \/ ReprocessFailedDocuments

SpecBatch == InitBatch /\ [][NextBatch]_vars

\* the stored document is in a terminal status when the call ends: COMPLETED
\* when process_document returned, FAILED with the error message kept when
\* it raised
EndsTerminal(call) ==
    /\ call.outcome = "returned" => call.status = COMPLETED
    /\ call.outcome = "raised" =>
          (call.status = FAILED /\ call.error_message # None)

\* C28: every call of process_document ends in a terminal status (COMPLETED
\* on return, FAILED with error_message set when a step raised, the
\* exception raised again), no call leaves the stored document PENDING or
\* PROCESSING, and after every call stats.total_processed equals
\* stats.successful + stats.failed
EveryCallEndsTerminal ==
    /\ \A c \in 1..Len(calls) : EndsTerminal(calls[c])
    /\ stats.total_processed = stats.successful + stats.failed
    /\ batch = "returned" =>
          \A i \in 1..Len(document_ids) :
              document_ids[i] \in DOMAIN documents =>
                  documents[document_ids[i]].status \in {COMPLETED, FAILED}

\* a batch has ended in which one call returned and another raised
TerminalWitness ==
    /\ batch = "returned"
    /\ \E c, d \in 1..Len(calls) :
          calls[c].outcome = "returned" /\ calls[d].outcome = "raised"

\* the tasks that hold the semaphore: their documents are being processed
InProcessing == { i \in 1..Len(tasks) : tasks[i] \in {"analysis", "extraction"} }

\* the positions of document_ids the storage holds no document for
NotStored == { i \in 1..Len(document_ids) : document_ids[i] \notin DOMAIN documents }

ErrorsOfKind(kind) == { e \in 1..Len(results.errors) : results.errors[e].kind = kind }
CallsWith(outcome) == { c \in 1..Len(calls) : calls[c].outcome = outcome }

\* C29: batch_process_documents accounts for every id exactly once under any
\* interleaving of its tasks: when it returns, results.processed is the
\* number of ids given and equals results.successful + results.failed, a
\* missing document or a failed run counts as failed with one error entry,
\* and never more than 3 documents are being processed at once
BatchAccountsForEveryId ==
    /\ Cardinality(InProcessing) <= SemaphoreLimit
    /\ batch = "returned" =>
          /\ results.processed = Len(document_ids)
          /\ results.processed = results.successful + results.failed
          /\ results.successful = Cardinality(CallsWith("returned"))
          /\ results.failed = Cardinality(NotStored) + Cardinality(CallsWith("raised"))
          /\ Len(results.errors) = results.failed
          /\ Cardinality(ErrorsOfKind("not found")) = Cardinality(NotStored)
          /\ Cardinality(ErrorsOfKind("error")) = Cardinality(CallsWith("raised"))

\* a batch of MaxIds ids has returned with a success, a failed run and a
\* missing document
BatchWitness ==
    /\ batch = "returned"
    /\ Len(document_ids) = MaxIds
    /\ results.successful > 0
    /\ ErrorsOfKind("not found") # {}
    /\ ErrorsOfKind("error") # {}

\* the stored documents whose status is FAILED when
\* reprocess_failed_documents is called are reset, processed again and
\* counted, and the call returns
ReprocessRule(r) ==
    /\ r.state = "returned"
    /\ r.processed = r.failed_before

\* C30: get_documents_by_status(s) returns exactly the stored documents
\* whose status is s, so reprocess_failed_documents resets every stored
\* FAILED document to PENDING, processes each of them again and reports a
\* processed count equal to the number of previously failed documents,
\* without raising
ReprocessCountsFailed ==
    /\ \A s \in ProcessingStatus :
          [state |-> "returned", value |-> WithStatus(documents, s)]
              = get_documents_by_status(documents, s)
    /\ reprocessed.state \in {"returned", "raised"} => ReprocessRule(reprocessed)

====
